---- MODULE Spec2Model ----
(***************************************************************************)
(* Workflow run executor of the Agent Management Suite web server          *)
(* (src/src/web/server.py) over the workflow graph store                   *)
(* (src/src/utils/workflow_manager.py).                                    *)
(*                                                                         *)
(* The server is an asyncio application: a handler runs without            *)
(* interruption between two awaits.  execute, advance and complete each    *)
(* contain exactly one `await request.json()`; they are modelled as a      *)
(* Begin step (the code before the await) and a Resume step (the code      *)
(* after it).  Handlers without an await in their body are one step.       *)
(***************************************************************************)
EXTENDS Integers, Sequences, FiniteSets, TLC

VARIABLES
    workflows,  \* wm.workflows: dict workflow id -> Workflow
    files,      \* config_dir: dict workflow id -> content of <id>.json
    ordering,   \* the locals of one get_ordered_steps() call
    runs,       \* _workflow_runs: dict run id -> run record
    calls,      \* handler coroutines suspended at `await request.json()`
    streams,    \* event_generator() instances of stream_workflow_run
    now,        \* the wall clock read by datetime.now()
    last,       \* the response of the handler step just taken
    race,       \* history: two advance calls overlapping on one run
    handoff_history,  \* wm.handoff_history: list of AgentHandoff
    exports,    \* the exported skill, command and prompt files by workflow id
    config_dir, \* whether the store directory config_dir exists
    orphans     \* run dicts replaced in _workflow_runs that a handler still holds

vars == <<workflows, files, ordering, runs, calls, streams, now, last, race,
          handoff_history, exports, config_dir, orphans>>

----------------------------------------------------------------------------
(* Bounds and input sets *)

MaxClock == 3       \* datetime.now() is read at most this many times
MaxCompleted == 2   \* advance is not called once completed_steps is this long
MaxSteps == 2       \* add_step is not called on a workflow with this many steps
MaxHandoffs == 60   \* execute_handoff is not called more often than this
MaxAnalyzed == 8    \* analyze_workflow_complexity is not given more steps

WfIds == {"w1"}                 \* workflow ids used in requests
RunTokens == {"r1"}             \* tokens str(uuid.uuid4())[:8] yields
RunIds == RunTokens             \* run ids used in requests (unknown until allocated)
CallIds == {1, 2}               \* handler coroutines that can be in flight
StreamIds == {1}                \* progress streams

None == "None"      \* Python None / a key absent from the request body
NoTime == 0         \* Python None in finished_at (timestamps are >= 1)

Prompts == {"p"}
Outputs == {None, "o1"}
NextStepInputs == {None, "", "b", "x"}
StatusInputs == {None, "cancelled", "paused"}
ErrorInputs == {None, "boom"}

TerminalStatuses == {"completed", "error", "cancelled"}
RunStatuses == {"running"} \cup TerminalStatuses

\* Python truthiness of an optional string: None and "" are falsy
Truthy(v) == v \notin {None, ""}

\* dict helpers
EmptyDict == [k \in {} |-> None]
DictSet(d, k, v) == [x \in (DOMAIN d) \cup {k} |-> IF x = k THEN v ELSE d[x]]
DictGet(d, k, default) == IF k \in DOMAIN d THEN d[k] ELSE default
DictDel(d, k) == [x \in (DOMAIN d) \ {k} |-> d[x]]

----------------------------------------------------------------------------
(* Visual-format payloads accepted by POST/PUT /api/workflows *)

NoCondition == [op |-> None]                          \* edge without condition
CondEq == [field |-> "f", op |-> "eq", value |-> "1"] \* false on an empty context

Node(i) == [id |-> i]
Edge(f, t, c) == [from |-> f, to |-> t, condition |-> c]

VisualPayloads == {
    \* linear chain a -> b
    [name |-> "wf", entry_point |-> "a",
     nodes |-> <<Node("a"), Node("b")>>,
     edges |-> <<Edge("a", "b", NoCondition)>>],
    \* branch: the first edge carries a condition and leads to no node
    [name |-> "wf", entry_point |-> "a",
     nodes |-> <<Node("a"), Node("b")>>,
     edges |-> <<Edge("a", "x", CondEq), Edge("a", "b", NoCondition)>>],
    \* loop a -> b -> a without entry point
    [name |-> "wf", entry_point |-> None,
     nodes |-> <<Node("a"), Node("b")>>,
     edges |-> <<Edge("a", "b", NoCondition), Edge("b", "a", NoCondition)>>]
}

----------------------------------------------------------------------------
(* WorkflowManager: from_visual_format / to_visual_format *)

\* edges_map[from_id]: targets of the edges leaving from_id, in payload order
EdgesMap(edges, id) ==
    LET sel == SelectSeq(edges, LAMBDA e : e.from = id /\ Truthy(e.from))
    IN  [k \in 1..Len(sel) |-> sel[k].to]

\* conditions_map[from_id]: target -> condition, the last such edge winning
ConditionsMap(edges, id) ==
    LET idx == {k \in 1..Len(edges) : /\ edges[k].from = id
                                      /\ Truthy(edges[k].from)
                                      /\ edges[k].condition # NoCondition}
        tgt == {edges[k].to : k \in idx}
        lastOf(t) == CHOOSE k \in idx : /\ edges[k].to = t
                                        /\ \A j \in idx : edges[j].to = t => j <= k
    IN  [t \in tgt |-> edges[lastOf(t)].condition]

\* A step or workflow record that leaves out description, node_type or
\* trigger holds the default of the dataclass: "", "agent", "manual".
description_of(step) == DictGet(step, "description", <<>>)
node_type_of(step) == DictGet(step, "node_type", "agent")
trigger_of(workflow) == DictGet(workflow, "trigger", "manual")

from_visual_format(wf_id, data) ==
    [id |-> wf_id,
     name |-> data.name,
     trigger |-> DictGet(data, "trigger", "manual"),
     steps |-> [i \in 1..Len(data.nodes) |->
                  [id |-> data.nodes[i].id,
                   description |-> DictGet(data.nodes[i], "description", <<>>),
                   next_steps |-> EdgesMap(data.edges, data.nodes[i].id),
                   conditions |-> ConditionsMap(data.edges, data.nodes[i].id),
                   node_type |-> DictGet(data.nodes[i], "type", "agent")]],
     entry_point |-> data.entry_point]

\* the dict _save_workflow serializes (updated_at, rewritten at every save,
\* is left out)
save_data(workflow) ==
    [id |-> workflow.id,
     name |-> workflow.name,
     trigger |-> trigger_of(workflow),
     steps |-> [i \in 1..Len(workflow.steps) |->
                  [id |-> workflow.steps[i].id,
                   description |-> description_of(workflow.steps[i]),
                   next_steps |-> workflow.steps[i].next_steps,
                   conditions |-> workflow.steps[i].conditions,
                   node_type |-> node_type_of(workflow.steps[i])]],
     entry_point |-> workflow.entry_point]

\* _save_workflow: overwrite the file named by the workflow's id
save_workflow(fs, workflow) == DictSet(fs, workflow.id, save_data(workflow))

StepEdges(step) ==
    [k \in 1..Len(step.next_steps) |->
        [from |-> step.id, to |-> step.next_steps[k],
         condition |-> DictGet(step.conditions, step.next_steps[k], NoCondition)]]

RECURSIVE VisualEdges(_)
VisualEdges(steps) ==
    IF steps = <<>> THEN <<>>
    ELSE StepEdges(Head(steps)) \o VisualEdges(Tail(steps))

\* the "edges" list of to_visual_format
to_visual_edges(wf) == VisualEdges(wf.steps)

----------------------------------------------------------------------------
(* Run records: the dict literal of execute_workflow *)

\* mutant: the run starts at the first declared step, not at entry_point
NewRunAtFirstStep(run_id, workflow_id, workflow, prompt, t) ==
    [id |-> run_id,
     workflow_id |-> workflow_id,
     workflow_name |-> workflow.name,
     status |-> "running",
     prompt |-> prompt,
     current_step |-> IF workflow.steps = <<>> THEN None ELSE workflow.steps[1].id,
     completed_steps |-> <<>>,
     step_outputs |-> EmptyDict,
     started_at |-> t,
     finished_at |-> NoTime,
     error |-> None]

NewRun(run_id, workflow_id, workflow, prompt, t) ==
    [id |-> run_id,
     workflow_id |-> workflow_id,
     workflow_name |-> workflow.name,
     status |-> "running",
     prompt |-> prompt,
     current_step |-> workflow.entry_point,
     completed_steps |-> <<>>,
     step_outputs |-> EmptyDict,
     started_at |-> t,
     finished_at |-> NoTime,
     error |-> None]

IsTerminal(run) == run.status \in TerminalStatuses

----------------------------------------------------------------------------
(* advance_workflow_step *)

\* mutant: only a completed run is refused
AdvanceAcceptsNotCompleted(run) == run.status # "completed"

\* mutant: the status check is missing
AdvanceAcceptsAlways(run) == TRUE

\* the status check made before the await: the run may be advanced
AdvanceAccepts(run) == run.status = "running"

\* step_output = data.get("output", "")
OutputOf(output) == IF output = None THEN "" ELSE output

\* wm.get_workflow(run["workflow_id"]) is not None
WorkflowFound(run, wfs) == run.workflow_id \in DOMAIN wfs

\* mutant: the step is put in front of completed_steps
RecordCompletionPrepend(run, output) ==
    IF Truthy(run.current_step)
    THEN [run EXCEPT !.completed_steps = <<run.current_step>> \o @,
                     !.step_outputs = DictSet(@, run.current_step, OutputOf(output))]
    ELSE run

\* "Record current step completion"
RecordCompletion(run, output) ==
    IF Truthy(run.current_step)
    THEN [run EXCEPT !.completed_steps = Append(@, run.current_step),
                     !.step_outputs = DictSet(@, run.current_step, OutputOf(output))]
    ELSE run

\* mutant: edges carrying a condition are evaluated (on an empty context) and
\* dropped when the condition fails
NextTargetsEvaluated(wf, current_step) ==
    LET sel == SelectSeq(to_visual_edges(wf),
                         LAMBDA e : e.from = current_step /\ e.condition = NoCondition)
    IN  [k \in 1..Len(sel) |-> sel[k].to]

\* next_steps = [e["to"] for e in visual["edges"] if e["from"] == current_step]
NextTargets(wf, current_step) ==
    LET sel == SelectSeq(to_visual_edges(wf), LAMBDA e : e.from = current_step)
    IN  [k \in 1..Len(sel) |-> sel[k].to]

\* the branch that ends the run is the only one reading the clock
AdvanceReadsClock(run, wfs, next_step) ==
    /\ WorkflowFound(run, wfs)
    /\ ~Truthy(next_step)
    /\ NextTargets(wfs[run.workflow_id], run.current_step) = <<>>

\* mutant: an explicit next_step is honoured only when it is an edge target
AdvanceStepValidating(run, wfs, output, next_step, t) ==
    IF ~WorkflowFound(run, wfs)
    THEN [run EXCEPT !.status = "error", !.error = "Workflow not found"]
    ELSE LET recorded == RecordCompletion(run, output)
             targets == NextTargets(wfs[run.workflow_id], run.current_step)
         IN  IF Truthy(next_step) /\ \E k \in DOMAIN targets : targets[k] = next_step
             THEN [recorded EXCEPT !.current_step = next_step]
             ELSE IF targets # <<>>
                  THEN [recorded EXCEPT !.current_step = targets[1]]
                  ELSE [recorded EXCEPT !.current_step = None,
                                        !.status = "completed",
                                        !.finished_at = t]

\* mutant: the last branch forgets to set the status
AdvanceStepNoStatus(run, wfs, output, next_step, t) ==
    IF ~WorkflowFound(run, wfs)
    THEN [run EXCEPT !.status = "error", !.error = "Workflow not found"]
    ELSE LET recorded == RecordCompletion(run, output)
             targets == NextTargets(wfs[run.workflow_id], run.current_step)
         IN  IF Truthy(next_step)
             THEN [recorded EXCEPT !.current_step = next_step]
             ELSE IF targets # <<>>
                  THEN [recorded EXCEPT !.current_step = targets[1]]
                  ELSE [recorded EXCEPT !.current_step = None,
                                        !.finished_at = t]

\* mutant: a run whose workflow is gone is cancelled
AdvanceStepCancels(run, wfs, output, next_step, t) ==
    IF ~WorkflowFound(run, wfs)
    THEN [run EXCEPT !.status = "cancelled", !.error = "Workflow not found"]
    ELSE LET recorded == RecordCompletion(run, output)
             targets == NextTargets(wfs[run.workflow_id], run.current_step)
         IN  IF Truthy(next_step)
             THEN [recorded EXCEPT !.current_step = next_step]
             ELSE IF targets # <<>>
                  THEN [recorded EXCEPT !.current_step = targets[1]]
                  ELSE [recorded EXCEPT !.current_step = None,
                                        !.status = "completed",
                                        !.finished_at = t]

\* the handler body after `await request.json()`
AdvanceStep(run, wfs, output, next_step, t) ==
    IF ~WorkflowFound(run, wfs)
    THEN [run EXCEPT !.status = "error", !.error = "Workflow not found"]
    ELSE LET recorded == RecordCompletion(run, output)
             targets == NextTargets(wfs[run.workflow_id], run.current_step)
         IN  IF Truthy(next_step)
             THEN [recorded EXCEPT !.current_step = next_step]
             ELSE IF targets # <<>>
                  THEN [recorded EXCEPT !.current_step = targets[1]]
                  ELSE [recorded EXCEPT !.current_step = None,
                                        !.status = "completed",
                                        !.finished_at = t]

\* the whole handler run without interruption: the record and the clock after it
AdvanceWhole(run, wfs, output, next_step, t) ==
    IF ~AdvanceAccepts(run)
    THEN [run |-> run, t |-> t]
    ELSE [run |-> AdvanceStep(run, wfs, output, next_step, t),
          t |-> IF AdvanceReadsClock(run, wfs, next_step) THEN t + 1 ELSE t]

----------------------------------------------------------------------------
(* complete_workflow_run: the handler body after `await request.json()` *)

CompleteStep(run, status, error, t) ==
    LET set == [run EXCEPT !.status = IF status = None THEN "completed" ELSE status,
                           !.finished_at = t]
    IN  IF Truthy(error) THEN [set EXCEPT !.error = error] ELSE set

----------------------------------------------------------------------------
(* State after construction: an existing, empty store directory            *)
(* (_load_workflows finds no file) and no run.                             *)

Idle == [op |-> "idle"]
\* no skill, command or prompt file has been exported
NoExports == EmptyDict
\* no get_ordered_steps() call is in progress
NoOrdering == [pc |-> "idle", workflow |-> None, queue |-> <<>>, visited |-> {},
               ordered |-> <<>>, step_num |-> 1]
\* a progress stream that is not open
NotOpen == [run |-> None, at |-> "closed", sent |-> None]
NoRace == [st |-> "none"]

\* responses: a JSON body with "success", or an HTTPException(404)
Suspended == [code |-> 0, ok |-> FALSE]     \* no response yet
Ok == [code |-> 200, ok |-> TRUE]
Failure == [code |-> 200, ok |-> FALSE]
NotFound == [code |-> 404, ok |-> FALSE]
\* one server-sent event: `data: json.dumps(run)`
Emitted(run) == [code |-> 200, ok |-> TRUE, data |-> run]

Init ==
    /\ workflows = EmptyDict
    /\ files = EmptyDict
    /\ ordering = NoOrdering
    /\ runs = EmptyDict
    /\ calls = [c \in CallIds |-> Idle]
    /\ streams = [s \in StreamIds |-> NotOpen]
    /\ now = 1
    /\ last = Suspended
    /\ race = NoRace
    /\ handoff_history = <<>>
    /\ exports = NoExports
    /\ config_dir = TRUE
    /\ orphans = EmptyDict

\* a request is served by the first free coroutine slot
FreeSlot(c) == calls[c] = Idle /\ \A d \in CallIds : d < c => calls[d] # Idle

\* a handler reached `await request.json()` and was suspended
Await(c, call) ==
    /\ calls' = [calls EXCEPT ![c] = call]
    /\ last' = Suspended

PendingExecutes == {c \in CallIds : calls[c].op = "execute"}

\* Which dict a suspended advance handler or a yielding event_generator
\* holds.  Both bind `run = _workflow_runs[run_id]` before they are suspended
\* and go on with that object.  It is the dict in the map (InMap) until
\* execute stores a new dict under the id; from then on it is reachable only
\* through its holders and kept in `orphans` under a reference.
InMap == "map"
ObjRefs == {"obj1", "obj2", "obj3"}
AdvanceHolders(cs) == {c \in CallIds : cs[c].op = "advance"}
StreamHolders(ss) == {s \in StreamIds : ss[s].at = "test"}
HeldObjects(cs, ss) ==
    {cs[c].obj : c \in AdvanceHolders(cs)} \cup {ss[s].obj : s \in StreamHolders(ss)}

\* the dict holder h is bound to
BoundRun(h) == IF h.obj = InMap THEN runs[h.run] ELSE orphans[h.obj]

\* a dict that no handler holds any longer is gone
Collect(objs, cs, ss) == [o \in (DOMAIN objs) \cap HeldObjects(cs, ss) |-> objs[o]]

\* the holders of the dict stored in the map under run_id
HoldsMapped(h, run_id) == h.run = run_id /\ h.obj = InMap

\* the suspended handlers that read the clock when they are resumed
PendingClockReads == {c \in CallIds : calls[c].op \in {"complete", "execute"}}
\* a request whose handler reads the clock is started only while the clock
\* can still be read by it and by every such handler already suspended
ClockLeftFor(pending) == now + Cardinality(pending) <= MaxClock

----------------------------------------------------------------------------
(* POST /api/workflows, PUT and DELETE /api/workflows/{id}.  The await of  *)
(* create and update precedes every access to the store, so each is one    *)
(* step.                                                                   *)

CreateWorkflow(w, data) ==
    /\ workflows' = DictSet(workflows, w, from_visual_format(w, data))
    /\ files' = save_workflow(files, from_visual_format(w, data))
    /\ last' = Ok
    /\ race' = NoRace
    /\ UNCHANGED <<ordering, runs, calls, streams, now,
                   handoff_history, exports, config_dir, orphans>>

UpdateWorkflow(w, data) ==
    /\ IF w \notin DOMAIN workflows
       THEN /\ last' = NotFound
            /\ UNCHANGED <<workflows, files>>
       ELSE /\ workflows' = DictSet(workflows, w, from_visual_format(w, data))
            /\ files' = save_workflow(files, from_visual_format(w, data))
            /\ last' = Ok
    /\ race' = NoRace
    /\ UNCHANGED <<ordering, runs, calls, streams, now,
                   handoff_history, exports, config_dir, orphans>>

DeleteWorkflow(w) ==
    /\ IF w \notin DOMAIN workflows
       THEN /\ last' = NotFound
            /\ UNCHANGED <<workflows, files>>
       ELSE /\ workflows' = DictDel(workflows, w)
            /\ files' = DictDel(files, w)
            /\ last' = Ok
    /\ race' = NoRace
    /\ UNCHANGED <<ordering, runs, calls, streams, now,
                   handoff_history, exports, config_dir, orphans>>

----------------------------------------------------------------------------
(* POST /api/workflows/{workflow_id}/execute *)

ExecuteBegin(c, w) ==
    /\ FreeSlot(c)
    /\ IF w \notin DOMAIN workflows
       THEN /\ last' = NotFound
            /\ UNCHANGED calls
       ELSE Await(c, [op |-> "execute", workflow_id |-> w,
                      workflow |-> workflows[w]])
    /\ race' = NoRace
    /\ UNCHANGED <<workflows, files, ordering, runs, streams, now,
                   handoff_history, exports, config_dir, orphans>>

\* an execute request arrives while the clock can still be read for it
ExecuteCalled(c, w) == ClockLeftFor(PendingClockReads) /\ ExecuteBegin(c, w)

\* the first execute request of a scenario with a single run
ExecuteFirst(c, w) ==
    /\ runs = EmptyDict
    /\ PendingExecutes = {}
    /\ ExecuteBegin(c, w)

\* run_id = str(uuid.uuid4())[:8] is stored without a test: an id that
\* comes again replaces the record of the run that holds it
ExecuteResume(c, prompt, run_id) ==
    /\ calls[c].op = "execute"
    /\ now <= MaxClock
    /\ runs' = DictSet(runs, run_id,
                       NewRun(run_id, calls[c].workflow_id, calls[c].workflow,
                              prompt, now))
    /\ now' = now + 1
    /\ LET advancing == {d \in AdvanceHolders(calls) : HoldsMapped(calls[d], run_id)}
           yielding == {s \in StreamHolders(streams) :
                           HoldsMapped(streams[s], run_id)}
           ref == CHOOSE o \in ObjRefs : o \notin DOMAIN orphans
       IN  \* the replaced dict stays with the handlers that hold it
           /\ orphans' = IF advancing = {} /\ yielding = {} THEN orphans
                         ELSE DictSet(orphans, ref, runs[run_id])
           /\ calls' = [d \in CallIds |->
                           IF d = c THEN Idle
                           ELSE IF d \in advancing
                           THEN [calls[d] EXCEPT !.obj = ref]
                           ELSE calls[d]]
           /\ streams' = [s \in StreamIds |->
                             IF s \in yielding
                             THEN [streams[s] EXCEPT !.obj = ref]
                             ELSE streams[s]]
    /\ last' = Ok
    /\ race' = NoRace
    /\ UNCHANGED <<workflows, files, ordering,
                   handoff_history, exports, config_dir>>

----------------------------------------------------------------------------
(* GET /api/workflows/runs/{run_id} *)

GetRun(r) ==
    /\ last' = IF r \in DOMAIN runs THEN Ok ELSE NotFound
    /\ race' = NoRace
    /\ UNCHANGED <<workflows, files, ordering, runs, calls, streams, now,
                   handoff_history, exports, config_dir, orphans>>

----------------------------------------------------------------------------
(* POST /api/workflows/runs/{run_id}/step *)

\* History of an overlap on one run, over four consecutive steps: two
\* advance calls pass their check ("checked1", "checked2"), then both resume
\* ("first", "done").  "done" holds the two serial orders of the pair,
\* computed from the record both calls checked.
RaceAtBegin(r) ==
    IF race.st = "checked1" /\ race.run = r
    THEN [st |-> "checked2", run |-> r]
    ELSE [st |-> "checked1", run |-> r]

RaceAtResume(r, held, output, next_step) ==
    IF race.st = "checked2" /\ race.run = r
    THEN [st |-> "first", run |-> r, base |-> held, at |-> now,
          output |-> output, next_step |-> next_step]
    ELSE IF race.st = "first" /\ race.run = r
    THEN LET a1 == AdvanceWhole(race.base, workflows, race.output,
                                race.next_step, race.at)
             ab == AdvanceWhole(a1.run, workflows, output, next_step, a1.t)
             b1 == AdvanceWhole(race.base, workflows, output, next_step, race.at)
             ba == AdvanceWhole(b1.run, workflows, race.output,
                                race.next_step, b1.t)
         IN  [st |-> "done", run |-> r, base |-> race.base, mid |-> held,
              ab |-> ab.run, ba |-> ba.run]
    ELSE NoRace

AdvanceBegin(c, r) ==
    /\ FreeSlot(c)
    /\ IF r \notin DOMAIN runs
       THEN /\ last' = NotFound
            /\ race' = NoRace
            /\ UNCHANGED calls
       ELSE IF ~AdvanceAccepts(runs[r])
       THEN /\ last' = Failure
            /\ race' = NoRace
            /\ UNCHANGED calls
       ELSE /\ Len(runs[r].completed_steps) < MaxCompleted
            /\ Await(c, [op |-> "advance", run |-> r, obj |-> InMap,
                          status |-> runs[r].status])
            /\ race' = RaceAtBegin(r)
    /\ UNCHANGED <<workflows, files, ordering, runs, streams, now,
                   handoff_history, exports, config_dir, orphans>>

\* the code after the await works on `run`, the dict bound at line 919
AdvanceResume(c, output, next_step) ==
    /\ calls[c].op = "advance"
    /\ LET r == calls[c].run
           run == BoundRun(calls[c])
           reads == AdvanceReadsClock(run, workflows, next_step)
           after == AdvanceStep(run, workflows, output, next_step, now)
       IN  /\ Len(run.completed_steps) < MaxCompleted
           /\ reads => now <= MaxClock
           /\ IF calls[c].obj = InMap
              THEN /\ runs' = [runs EXCEPT ![r] = after]
                   /\ orphans' = orphans
              ELSE /\ runs' = runs
                   /\ orphans' = Collect([orphans EXCEPT ![calls[c].obj] = after],
                                         [calls EXCEPT ![c] = Idle], streams)
           /\ now' = IF reads THEN now + 1 ELSE now
           /\ last' = IF WorkflowFound(run, workflows) THEN Ok ELSE Failure
           /\ race' = RaceAtResume(r, run, output, next_step)
    /\ calls' = [calls EXCEPT ![c] = Idle]
    /\ UNCHANGED <<workflows, files, ordering, streams,
                   handoff_history, exports, config_dir>>

----------------------------------------------------------------------------
(* POST /api/workflows/runs/{run_id}/complete: the test that the run       *)
(* exists, the await of the body, then the writes to the record.           *)

\* mutant: an unknown run id is given a record instead of a 404
CompleteBeginUpserting(c, r) ==
    /\ FreeSlot(c)
    /\ Await(c, [op |-> "complete", run |-> r])
    /\ runs' = IF r \in DOMAIN runs THEN runs
               ELSE DictSet(runs, r,
                            NewRun(r, None, [name |-> None, entry_point |-> None],
                                   "", now))
    /\ race' = NoRace
    /\ UNCHANGED <<workflows, files, ordering, streams, now,
                   handoff_history, exports, config_dir, orphans>>

CompleteBegin(c, r) ==
    /\ FreeSlot(c)
    /\ IF r \notin DOMAIN runs
       THEN /\ last' = NotFound
            /\ UNCHANGED calls
       ELSE /\ ClockLeftFor(PendingClockReads)
            /\ Await(c, [op |-> "complete", run |-> r])
    /\ race' = NoRace
    /\ UNCHANGED <<workflows, files, ordering, runs, streams, now,
                   handoff_history, exports, config_dir, orphans>>

CompleteResume(c, status, error) ==
    /\ calls[c].op = "complete"
    /\ now <= MaxClock
    /\ runs' = [runs EXCEPT ![calls[c].run] = CompleteStep(@, status, error, now)]
    /\ now' = now + 1
    /\ calls' = [calls EXCEPT ![c] = Idle]
    /\ last' = Ok
    /\ race' = NoRace
    /\ UNCHANGED <<workflows, files, ordering, streams,
                   handoff_history, exports, config_dir, orphans>>

----------------------------------------------------------------------------
(* GET /api/workflows/runs/{run_id}/stream.  streams[s] is NotOpen while   *)
(* stream s is not open.  event_generator is an async generator: its       *)
(* `yield` hands the event to the response, which awaits the transport, so *)
(* other handlers can run before the generator is resumed and tests        *)
(* run["status"] on the dict object it yielded.  No run is ever removed,   *)
(* so the generator's "Run not found" branch is not taken.                 *)

\* positions of event_generator: about to read and yield the record, and
\* suspended in the yield holding the dict it read; `sent` is the status of
\* the event the stream sent last (None before the first)
AtYield(r, sent) == [run |-> r, at |-> "yield", sent |-> sent]
Yielded(r, sent) == [run |-> r, at |-> "test", sent |-> sent, obj |-> InMap]

\* the test that ends event_generator's loop
StreamEnds(run) == run.status \in {"completed", "error", "cancelled"}

StreamOpen(s, r) ==
    /\ streams[s] = NotOpen
    /\ IF r \notin DOMAIN runs
       THEN /\ last' = NotFound
            /\ UNCHANGED streams
       ELSE /\ last' = Ok
            /\ streams' = [streams EXCEPT ![s] = AtYield(r, None)]
    /\ race' = NoRace
    /\ UNCHANGED <<workflows, files, ordering, runs, calls, now,
                   handoff_history, exports, config_dir, orphans>>

\* run = _workflow_runs[run_id]; yield json.dumps(run)
StreamEmit(s) ==
    /\ streams[s].at = "yield"
    /\ streams' = [streams EXCEPT ![s] = Yielded(@.run, runs[@.run].status)]
    /\ last' = Emitted(runs[streams[s].run])
    /\ race' = NoRace
    /\ UNCHANGED <<workflows, files, ordering, runs, calls, now,
                   handoff_history, exports, config_dir, orphans>>

\* resumed after the yield: break on a terminal status, else sleep and loop
StreamTest(s) ==
    /\ streams[s].at = "test"
    /\ streams' = [streams EXCEPT ![s] =
                      IF StreamEnds(BoundRun(@)) THEN NotOpen
                      ELSE AtYield(@.run, @.sent)]
    /\ orphans' = Collect(orphans, calls, streams')
    /\ last' = Ok
    /\ race' = NoRace
    /\ UNCHANGED <<workflows, files, ordering, runs, calls, now,
                   handoff_history, exports, config_dir>>

----------------------------------------------------------------------------

\* One run under every interleaving of the store and the run handlers: the
\* run is started once.  Several runs, and a run id that comes again, are
\* in NextMany.
Next ==
    \/ \E w \in WfIds, data \in VisualPayloads : CreateWorkflow(w, data)
    \/ \E w \in WfIds, data \in VisualPayloads : UpdateWorkflow(w, data)
    \/ \E w \in WfIds : DeleteWorkflow(w)
    \/ \E c \in CallIds, w \in WfIds : ExecuteFirst(c, w)
    \/ \E c \in CallIds, prompt \in Prompts, run_id \in RunTokens :
          ExecuteResume(c, prompt, run_id)
    \/ \E r \in RunIds : GetRun(r)
    \/ \E c \in CallIds, r \in RunIds : AdvanceBegin(c, r)
    \/ \E c \in CallIds, output \in Outputs, next_step \in NextStepInputs :
          AdvanceResume(c, output, next_step)
    \/ \E c \in CallIds, r \in RunIds : CompleteBegin(c, r)
    \/ \E c \in CallIds, status \in StatusInputs : CompleteResume(c, status, None)

Spec == Init /\ [][Next]_vars

----------------------------------------------------------------------------
(* A run driven only by advance calls without next_step: the workflow is   *)
(* stored before the run is started and not touched afterwards.  The       *)
(* caller keeps calling advance, and the event loop resumes a suspended    *)
(* handler once its body has arrived.                                      *)

LivePayloads ==
    VisualPayloads \cup
    {[name |-> "wf", entry_point |-> "a",
      nodes |-> <<Node("a"), Node("b")>>,
      edges |-> <<Edge("a", "b", NoCondition), Edge("b", "a", NoCondition)>>]}

StoreWorkflow(w, data) ==
    /\ runs = EmptyDict
    /\ PendingExecutes = {}
    /\ CreateWorkflow(w, data)

AdvanceCalled == \E c \in CallIds, r \in RunIds : AdvanceBegin(c, r)
AdvanceResumed == \E c \in CallIds, output \in Outputs : AdvanceResume(c, output, None)

NextLive ==
    \/ \E w \in WfIds, data \in LivePayloads : StoreWorkflow(w, data)
    \/ \E c \in CallIds, w \in WfIds : ExecuteFirst(c, w)
    \/ \E c \in CallIds, prompt \in Prompts, run_id \in RunTokens :
          ExecuteResume(c, prompt, run_id)
    \/ AdvanceCalled
    \/ AdvanceResumed

SpecLive ==
    /\ Init
    /\ [][NextLive]_vars
    /\ WF_vars(AdvanceCalled)
    /\ WF_vars(AdvanceResumed)

----------------------------------------------------------------------------
(* WorkflowManager.to_executable_prompt: get_ordered_steps, one step of    *)
(* the model per iteration of its `while queue:` loop.                     *)

\* steps_by_id = {s.id: s for s in workflow.steps}: a later step replaces
\* an earlier one with the same id
HasStep(workflow, step_id) ==
    \E i \in 1..Len(workflow.steps) : workflow.steps[i].id = step_id

StepById(workflow, step_id) ==
    LET idx == {i \in 1..Len(workflow.steps) : workflow.steps[i].id = step_id}
    IN  workflow.steps[CHOOSE i \in idx : \A j \in idx : j <= i]

\* mutant: the steps are numbered from 0
DeclarationOrderFromZero(steps) ==
    [i \in 1..Len(steps) |-> [num |-> i - 1, step |-> steps[i]]]

\* [(i + 1, s) for i, s in enumerate(workflow.steps)]
DeclarationOrder(steps) ==
    [i \in 1..Len(steps) |-> [num |-> i, step |-> steps[i]]]

\* mutant: a step already visited is handled again
SkipNever(step_id, visited) == FALSE

\* `if step_id in visited: continue`
SkipVisited(step_id, visited) == step_id \in visited

\* mutant: only the first successor is queued
QueueFirstOnly(queue, next_steps) ==
    IF next_steps = <<>> THEN queue ELSE Append(queue, next_steps[1])

\* mutant: the successors go to the front of the queue (depth first)
QueuePrepend(queue, next_steps) == next_steps \o queue

\* queue.extend(step.next_steps)
QueueExtend(queue, next_steps) == queue \o next_steps

OrderBegin(w) ==
    /\ ordering.pc = "idle"
    /\ w \in DOMAIN workflows
    /\ ordering' =
          IF ~Truthy(workflows[w].entry_point)
          THEN [NoOrdering EXCEPT !.pc = "done", !.workflow = w,
                                  !.ordered = DeclarationOrder(workflows[w].steps)]
          ELSE [NoOrdering EXCEPT !.pc = "loop", !.workflow = w,
                                  !.queue = <<workflows[w].entry_point>>]
    /\ UNCHANGED <<workflows, files, runs, calls, streams, now, last, race,
                   handoff_history, exports, config_dir, orphans>>

OrderLoop ==
    /\ ordering.pc = "loop"
    /\ ordering.queue # <<>>
    /\ LET step_id == Head(ordering.queue)
           popped == [ordering EXCEPT !.queue = Tail(@)]
           step == StepById(workflows[ordering.workflow], step_id)
       IN  ordering' =
             IF SkipVisited(step_id, ordering.visited) THEN popped
             ELSE IF ~HasStep(workflows[ordering.workflow], step_id)
             THEN [popped EXCEPT !.visited = @ \cup {step_id}]
             ELSE [popped EXCEPT
                      !.visited = @ \cup {step_id},
                      !.ordered = Append(@, [num |-> ordering.step_num,
                                             step |-> step]),
                      !.step_num = @ + 1,
                      !.queue = QueueExtend(@, step.next_steps)]
    /\ UNCHANGED <<workflows, files, runs, calls, streams, now, last, race,
                   handoff_history, exports, config_dir, orphans>>

OrderReturn ==
    /\ ordering.pc = "loop"
    /\ ordering.queue = <<>>
    /\ ordering' = [ordering EXCEPT !.pc = "done"]
    /\ UNCHANGED <<workflows, files, runs, calls, streams, now, last, race,
                   handoff_history, exports, config_dir, orphans>>

\* workflows handed to the orderer: the declared ids, each step's
\* next_steps, the entry point
OrderIdLists == {<<"a", "b", "c">>, <<"a", "b">>, <<"a", "b", "a">>}
OrderNextSteps ==
    {<<>>, <<"a">>, <<"b">>, <<"c">>, <<"b", "c">>, <<"c", "b">>, <<"c", "c">>,
     <<"a", "b">>, <<"z">>, <<"z", "c">>}
OrderEntryPoints == {None, "", "a", "b", "c", "z"}

OrderWorkflows ==
    UNION {{[id |-> "w1", name |-> "wf", entry_point |-> e,
             steps |-> [i \in 1..Len(ids) |->
                          [id |-> ids[i], next_steps |-> ns[i],
                           conditions |-> EmptyDict]]] :
              ns \in [1..Len(ids) -> OrderNextSteps], e \in OrderEntryPoints} :
           ids \in OrderIdLists}

\* four steps in two levels below the entry point a, with an edge to the
\* missing step z and a back edge
OrderDeepWorkflows ==
    {[id |-> "w1", name |-> "wf", entry_point |-> "a",
      steps |-> <<[id |-> "a", next_steps |-> na, conditions |-> EmptyDict],
                  [id |-> "b", next_steps |-> nb, conditions |-> EmptyDict],
                  [id |-> "c", next_steps |-> nc, conditions |-> EmptyDict],
                  [id |-> "d", next_steps |-> nd, conditions |-> EmptyDict]>>] :
        na \in {<<"b", "c">>, <<"c", "b">>, <<"b">>},
        nb \in {<<"d">>, <<"z", "d">>, <<>>},
        nc \in {<<"d">>, <<>>},
        nd \in {<<>>, <<"a">>, <<"c">>}}

InitOrder ==
    /\ \E wf \in OrderWorkflows \cup OrderDeepWorkflows :
          /\ workflows = DictSet(EmptyDict, wf.id, wf)
          /\ files = save_workflow(EmptyDict, wf)
    /\ ordering = NoOrdering
    /\ runs = EmptyDict
    /\ calls = [c \in CallIds |-> Idle]
    /\ streams = [s \in StreamIds |-> NotOpen]
    /\ now = 1
    /\ last = Suspended
    /\ race = NoRace
    /\ handoff_history = <<>>
    /\ exports = NoExports
    /\ config_dir = TRUE
    /\ orphans = EmptyDict

NextOrder ==
    \/ \E w \in WfIds : OrderBegin(w)
    \/ OrderLoop
    \/ OrderReturn

\* the call is synchronous: once started it runs to its return
SpecOrder == InitOrder /\ [][NextOrder]_vars /\ WF_vars(NextOrder)

----------------------------------------------------------------------------
(* The editing API of WorkflowManager: create_workflow, add_step,          *)
(* connect_steps, update_step, remove_step, with from_visual_format and    *)
(* delete_workflow.  Every method is synchronous: one step each.           *)

\* names given to create_workflow, and the id it derives from each:
\* lower case, " " and "_" to "-", everything outside [a-z0-9-] dropped
StoreNames == {"W 1", "w_1!"}
wf_id_of(name) == CASE name = "W 1" -> "w-1"
                    [] name = "w_1!" -> "w-1"
StoreWfIds == {wf_id_of(n) : n \in StoreNames}

\* f"step-{len(workflow.steps) + 1}"
GeneratedStepIds == <<"step-1", "step-2", "step-3", "step-4">>
GeneratedStepId(count) == GeneratedStepIds[count + 1]

AddStepIds == {None, "", "a"}                \* kwargs.get("id")
StoreStepIds == {"step-1", "step-2", "a", "b"}    \* step ids used in requests
\* connect_steps requests: <<to_step, condition>>
ConnectRequests == {<<"step-2", CondEq>>, <<"zz", NoCondition>>}
UpdateNextSteps == {<<"a">>}
StorePayloads ==
    {[name |-> "wf", entry_point |-> "b",
      nodes |-> <<Node("a")>>,
      edges |-> <<Edge("a", "b", NoCondition), Edge("a", "b", CondEq)>>],
     [name |-> "wf", entry_point |-> "b",
      nodes |-> <<Node("a"), Node("b")>>,
      edges |-> <<Edge("a", "b", NoCondition), Edge("a", "b", NoCondition)>>]}

\* index of the first step with the given id, 0 when there is none
FirstStepWithId(steps, step_id) ==
    LET idx == {i \in 1..Len(steps) : steps[i].id = step_id}
    IN  IF idx = {} THEN 0 ELSE CHOOSE i \in idx : \A j \in idx : i <= j

\* an edit that is registered in memory and never written to its file
StoreWithoutSave(w, workflow) ==
    /\ workflows' = DictSet(workflows, w, workflow)
    /\ UNCHANGED files

\* an edit of workflow w: register the result and _save_workflow it
StoreAndSave(w, workflow) ==
    /\ workflows' = DictSet(workflows, w, workflow)
    /\ files' = save_workflow(files, workflow)

\* a method returned None / False before touching anything
NothingDone ==
    /\ last' = Failure
    /\ UNCHANGED <<workflows, files>>

create_workflow(name) ==
    /\ StoreAndSave(wf_id_of(name),
                    [id |-> wf_id_of(name), name |-> name, steps |-> <<>>,
                     entry_point |-> None])
    /\ last' = Ok
    /\ race' = NoRace
    /\ UNCHANGED <<ordering, runs, calls, streams, now,
                   handoff_history, exports, config_dir, orphans>>

add_step(w, id, next_steps) ==
    /\ IF w \notin DOMAIN workflows THEN NothingDone
       ELSE LET workflow == workflows[w]
                step_id == IF Truthy(id) THEN id
                           ELSE GeneratedStepId(Len(workflow.steps))
                step == [id |-> step_id, next_steps |-> next_steps,
                         conditions |-> EmptyDict]
                steps == Append(workflow.steps, step)
            IN  /\ Len(workflow.steps) < MaxSteps
                /\ StoreAndSave(w, [workflow EXCEPT
                                       !.steps = steps,
                                       !.entry_point = IF Len(steps) = 1
                                                       THEN step_id ELSE @])
                /\ last' = Ok
    /\ race' = NoRace
    /\ UNCHANGED <<ordering, runs, calls, streams, now,
                   handoff_history, exports, config_dir, orphans>>

connect_steps(w, from_step, to_step, condition) ==
    /\ IF w \notin DOMAIN workflows THEN NothingDone
       ELSE LET workflow == workflows[w]
                i == FirstStepWithId(workflow.steps, from_step)
                step == workflow.steps[i]
                ns == IF \E k \in 1..Len(step.next_steps) :
                            step.next_steps[k] = to_step
                      THEN step.next_steps
                      ELSE Append(step.next_steps, to_step)
                cs == IF condition # NoCondition
                      THEN DictSet(step.conditions, to_step, condition)
                      ELSE step.conditions
            IN  IF i = 0 THEN NothingDone
                ELSE /\ StoreAndSave(w, [workflow EXCEPT
                                            !.steps[i].next_steps = ns,
                                            !.steps[i].conditions = cs])
                     /\ last' = Ok
    /\ race' = NoRace
    /\ UNCHANGED <<ordering, runs, calls, streams, now,
                   handoff_history, exports, config_dir, orphans>>

\* update_step(workflow_id, step_id, next_steps=...)
update_step(w, step_id, next_steps) ==
    /\ IF w \notin DOMAIN workflows THEN NothingDone
       ELSE LET workflow == workflows[w]
                i == FirstStepWithId(workflow.steps, step_id)
            IN  IF i = 0 THEN NothingDone
                ELSE /\ StoreAndSave(w, [workflow EXCEPT
                                            !.steps[i].next_steps = next_steps])
                     /\ last' = Ok
    /\ race' = NoRace
    /\ UNCHANGED <<ordering, runs, calls, streams, now,
                   handoff_history, exports, config_dir, orphans>>

\* list.remove(x): drop the first occurrence of x
RemoveFirst(seq, x) ==
    LET idx == {k \in 1..Len(seq) : seq[k] = x}
        first == CHOOSE k \in idx : \A j \in idx : k <= j
    IN  IF idx = {} THEN seq
        ELSE [k \in 1..(Len(seq) - 1) |-> IF k < first THEN seq[k] ELSE seq[k + 1]]

remove_step(w, step_id) ==
    /\ IF w \notin DOMAIN workflows THEN NothingDone
       ELSE LET workflow == workflows[w]
                kept == SelectSeq(workflow.steps, LAMBDA s : s.id # step_id)
                steps == [i \in 1..Len(kept) |->
                            [kept[i] EXCEPT
                               !.next_steps = RemoveFirst(@, step_id),
                               !.conditions = DictDel(@, step_id)]]
                entry == IF workflow.entry_point = step_id
                         THEN (IF steps # <<>> THEN steps[1].id ELSE None)
                         ELSE workflow.entry_point
            IN  /\ StoreAndSave(w, [workflow EXCEPT !.steps = steps,
                                                     !.entry_point = entry])
                /\ last' = Ok
    /\ race' = NoRace
    /\ UNCHANGED <<ordering, runs, calls, streams, now,
                   handoff_history, exports, config_dir, orphans>>

NextStore ==
    \/ \E name \in StoreNames : create_workflow(name)
    \/ \E w \in StoreWfIds, id \in AddStepIds : add_step(w, id, <<>>)
    \/ \E w \in StoreWfIds, f \in StoreStepIds, r \in ConnectRequests :
          connect_steps(w, f, r[1], r[2])
    \/ \E w \in StoreWfIds, s \in StoreStepIds, ns \in UpdateNextSteps :
          update_step(w, s, ns)
    \/ \E w \in StoreWfIds, s \in StoreStepIds : remove_step(w, s)
    \/ \E w \in StoreWfIds, data \in StorePayloads : CreateWorkflow(w, data)
    \/ \E w \in StoreWfIds : DeleteWorkflow(w)

SpecStore == Init /\ [][NextStore]_vars

----------------------------------------------------------------------------
(* execute_handoff: the handoff log of the manager *)

HistoryCap == 50

\* the value a manager method returns
Returned(value) == [code |-> 200, ok |-> TRUE, data |-> value]

\* AgentHandoff(...): the timestamp is datetime.now() at construction
AgentHandoff(from_agent, to_agent, context, reason, t) ==
    [from_agent |-> from_agent, to_agent |-> to_agent, context |-> context,
     reason |-> reason, timestamp |-> t]

\* mutant: the oldest entries are kept
KeepFirst(history, count) == SubSeq(history, 1, count)

\* history[-count:] on a list longer than count
KeepLast(history, count) ==
    SubSeq(history, Len(history) - count + 1, Len(history))

execute_handoff(from_agent, to_agent, context, reason) ==
    /\ now <= MaxHandoffs
    /\ LET handoff == AgentHandoff(from_agent, to_agent, context, reason, now)
           appended == Append(handoff_history, handoff)
       IN  /\ handoff_history' = IF Len(appended) > HistoryCap
                                 THEN KeepLast(appended, HistoryCap)
                                 ELSE appended
           /\ last' = Returned(handoff)
    /\ now' = now + 1
    /\ UNCHANGED <<workflows, files, ordering, runs, calls, streams, race,
                   exports, config_dir, orphans>>

\* the calls whose target agent varies; every other call hands off to the
\* first agent
HandoffAgents == <<"planner", "coder">>
VariedHandoffs == {1, 2, 51}
HandoffTargets(n) ==
    IF n \in VariedHandoffs THEN {HandoffAgents[1], HandoffAgents[2]}
    ELSE {HandoffAgents[1]}

NextHandoff ==
    \E to_agent \in HandoffTargets(now) :
        execute_handoff("user", to_agent, EmptyDict, "User requested")

SpecHandoff == Init /\ [][NextHandoff]_vars

----------------------------------------------------------------------------
(* _load_workflows, called by the constructor.  Over an existing store     *)
(* directory it reads the files; without the directory it creates it and   *)
(* writes the two default workflows.  A file's content is the JSON object  *)
(* it holds, as a record; a file that holds no JSON and a file that holds  *)
(* a JSON array are the two records below.                                 *)

NotJson == [text |-> "{oops"]        \* json.loads raises
JsonArray == [array |-> <<>>]        \* json.loads gives a list: data.get raises

\* mutant: a file that cannot be parsed is read as an empty object
ReadsAsEmptyObject(content) == TRUE

\* json.loads(text) and _parse_workflow(data) both return
ParsesWithoutError(content) ==
    /\ "text" \notin DOMAIN content
    /\ "array" \notin DOMAIN content

parse_step(s) ==
    [id |-> DictGet(s, "id", ""),
     description |-> DictGet(s, "description", <<>>),
     next_steps |-> DictGet(s, "next_steps", <<>>),
     conditions |-> DictGet(s, "conditions", EmptyDict),
     node_type |-> DictGet(s, "node_type", "agent")]

parse_workflow(data) ==
    LET steps == DictGet(data, "steps", <<>>)
    IN  [id |-> DictGet(data, "id", ""),
         name |-> DictGet(data, "name", ""),
         trigger |-> DictGet(data, "trigger", "manual"),
         steps |-> [i \in 1..Len(steps) |-> parse_step(steps[i])],
         entry_point |-> DictGet(data, "entry_point", None)]

\* the loop over config_dir.glob("*.json") in the order the glob yields
RECURSIVE load_files(_, _, _)
load_files(dir, order, loaded) ==
    IF order = <<>> THEN loaded
    ELSE LET content == dir[Head(order)]
             workflow == parse_workflow(content)
         IN  load_files(dir, Tail(order),
                        IF ParsesWithoutError(content)
                        THEN DictSet(loaded, workflow.id, workflow)
                        ELSE loaded)

\* the orders in which a glob can yield the files of a directory
GlobOrders(names) ==
    {order \in [1..Cardinality(names) -> names] :
        \A i, j \in 1..Cardinality(names) : i # j => order[i] # order[j]}

\* the WorkflowStep literals of _create_default_workflows
DefaultStep(id, description, next_steps) ==
    [id |-> id, description |-> <<description>>, next_steps |-> next_steps,
     conditions |-> EmptyDict, node_type |-> "agent"]

review_wf ==
    [id |-> "code-review", name |-> "Code Review Workflow",
     trigger |-> "command",
     steps |-> <<DefaultStep("analyze",
                             "Analyze codebase and identify areas for review",
                             <<"security", "quality">>),
                 DefaultStep("security", "Check for security vulnerabilities",
                             <<"summarize">>),
                 DefaultStep("quality", "Review code quality and best practices",
                             <<"summarize">>),
                 DefaultStep("summarize", "Compile findings and generate report",
                             <<>>)>>,
     entry_point |-> "analyze"]

feature_wf ==
    [id |-> "feature-dev", name |-> "Feature Development Workflow",
     trigger |-> "command",
     steps |-> <<DefaultStep("plan", "Create implementation plan",
                             <<"implement">>),
                 DefaultStep("implement", "Implement the feature", <<"test">>),
                 DefaultStep("test", "Write and run tests", <<"review">>),
                 DefaultStep("review", "Review implementation", <<>>)>>,
     entry_point |-> "plan"]

\* _create_default_workflows: both registered and saved
create_default_workflows ==
    /\ workflows' = DictSet(DictSet(workflows, review_wf.id, review_wf),
                            feature_wf.id, feature_wf)
    /\ files' = save_workflow(save_workflow(files, review_wf), feature_wf)

load_workflows ==
    /\ last = Suspended
    /\ IF ~config_dir
       THEN /\ config_dir' = TRUE
            /\ create_default_workflows
       ELSE /\ \E order \in GlobOrders(DOMAIN files) :
                  workflows' = load_files(files, order, EmptyDict)
            /\ UNCHANGED <<files, config_dir>>
    /\ last' = Ok
    /\ UNCHANGED <<ordering, runs, calls, streams, now, race,
                   handoff_history, exports, orphans>>

\* the files found in the directory: written by _save_workflow, copied
\* under another name, written by hand without an id, or damaged
LoadFileNames == {"w1", "w2", "w3"}
LoadContents ==
    {save_data(from_visual_format(w, data)) :
        w \in {"w1", "w2"}, data \in LivePayloads}
    \cup {[name |-> "bare"], NotJson, JsonArray}
LoadDirectories ==
    UNION {[names -> LoadContents] : names \in SUBSET LoadFileNames}

InitLoad ==
    /\ \/ config_dir = TRUE /\ files \in LoadDirectories
       \/ config_dir = FALSE /\ files = EmptyDict
    /\ orphans = EmptyDict
    /\ workflows = EmptyDict
    /\ ordering = NoOrdering
    /\ runs = EmptyDict
    /\ calls = [c \in CallIds |-> Idle]
    /\ streams = [s \in StreamIds |-> NotOpen]
    /\ now = 1
    /\ last = Suspended
    /\ race = NoRace
    /\ handoff_history = <<>>
    /\ exports = NoExports

NextLoad == load_workflows

SpecLoad == InitLoad /\ [][NextLoad]_vars

----------------------------------------------------------------------------
(* parse_verbal_command.  A text is a sequence of pieces: the words the    *)
(* patterns name, other words, and the blank " ".  Pieces that follow one  *)
(* another without a blank are written together in the text ("hand",       *)
(* "off" is "handoff").  A word that contains a pattern word is cut there  *)
(* ("pa", "use" and "hand", "le"), since a pattern matches inside words.   *)

Blank == " "

\* elements of a pattern: a literal word, \s*, \s+ and the group (\S+)
Lit(word) == [kind |-> "lit", word |-> word]
Ws0 == [kind |-> "ws", least |-> 0]
Ws1 == [kind |-> "ws", least |-> 1]
Group == [kind |-> "group", least |-> 1]

\* a pattern with its action tag; `forms` lists what an optional group
\* expands to, the form with the group first
Pattern(forms, action) == [forms |-> forms, action |-> action]

HANDOFF_PATTERNS ==
    <<Pattern(<<<<Lit("hand"), Ws0, Lit("off"), Ws1, Lit("to"), Ws1, Group>>>>,
              "handoff"),
      Pattern(<<<<Lit("switch"), Ws1, Lit("to"), Ws1, Group>>>>, "switch"),
      Pattern(<<<<Lit("delegate"), Ws1, Lit("to"), Ws1, Group>>>>, "delegate"),
      Pattern(<<<<Lit("use"), Ws1, Group, Ws1, Lit("agent")>>>>, "use"),
      Pattern(<<<<Lit("let"), Ws1, Group, Ws1, Lit("hand"), Lit("le")>>>>, "delegate"),
      Pattern(<<<<Lit("pass"), Ws1, Lit("to"), Ws1, Group>>>>, "handoff"),
      Pattern(<<<<Lit("transfer"), Ws1, Lit("to"), Ws1, Group>>>>, "transfer"),
      Pattern(<<<<Lit("continue"), Ws1, Lit("with"), Ws1, Group>>>>, "continue")>>

FLOW_PATTERNS ==
    <<Pattern(<<<<Lit("pa"), Lit("use"), Ws1, Lit("workflow")>>>>, "pause"),
      Pattern(<<<<Lit("resume"), Ws1, Lit("workflow")>>>>, "resume"),
      Pattern(<<<<Lit("cancel"), Ws1, Lit("workflow")>>>>, "cancel"),
      Pattern(<<<<Lit("restart"), Ws1, Lit("workflow")>>>>, "restart"),
      Pattern(<<<<Lit("skip"), Ws1, Lit("to"), Ws1, Group>>>>, "skip"),
      Pattern(<<<<Lit("go"), Ws1, Lit("back"), Ws1, Lit("to"), Ws1, Group>>>>,
              "goback"),
      Pattern(<<<<Lit("retry"), Ws1, Lit("last"), Ws1, Lit("step")>>,
                <<Lit("retry"), Ws1, Lit("step")>>>>, "retry")>>

NoMatch == [ok |-> FALSE, target |-> <<>>, grouped |-> FALSE]

\* how many pieces from position p on are blanks (or are not blanks)
RECURSIVE RunLength(_, _, _)
RunLength(text, p, blanks) ==
    IF p > Len(text) \/ (text[p] = Blank) # blanks THEN 0
    ELSE 1 + RunLength(text, p + 1, blanks)

\* the match of form[i..] at position p: quantifiers take as much as the
\* rest of the form allows
RECURSIVE MatchFrom(_, _, _, _)
MatchFrom(form, i, text, p) ==
    IF i > Len(form) THEN [ok |-> TRUE, target |-> <<>>, grouped |-> FALSE]
    ELSE IF form[i].kind = "lit"
    THEN IF p <= Len(text) /\ text[p] = form[i].word
         THEN MatchFrom(form, i + 1, text, p + 1)
         ELSE NoMatch
    ELSE LET run == RunLength(text, p, form[i].kind = "ws")
             fits == {k \in form[i].least..run :
                         MatchFrom(form, i + 1, text, p + k).ok}
             most == CHOOSE k \in fits : \A j \in fits : j <= k
             rest == MatchFrom(form, i + 1, text, p + most)
         IN  IF fits = {} THEN NoMatch
             ELSE IF form[i].kind = "group"
             THEN [ok |-> TRUE, target |-> SubSeq(text, p, p + most - 1),
                   grouped |-> TRUE]
             ELSE rest

\* re.search(pattern, text): the match at the leftmost position that has one
Search(pattern, text) ==
    LET at(p) == LET ok == {f \in 1..Len(pattern.forms) :
                               MatchFrom(pattern.forms[f], 1, text, p).ok}
                 IN  IF ok = {} THEN NoMatch
                     ELSE MatchFrom(pattern.forms[CHOOSE f \in ok :
                                                     \A g \in ok : f <= g],
                                    1, text, p)
        starts == {p \in 1..(Len(text) + 1) : at(p).ok}
    IN  IF starts = {} THEN NoMatch
        ELSE at(CHOOSE p \in starts : \A q \in starts : p <= q)

\* text.lower() on the pieces
LowerPiece(piece) ==
    CASE piece = "HAND" -> "hand"
      [] piece = "Off" -> "off"
      [] piece = "TO" -> "to"
      [] piece = "Pa" -> "pa"
      [] piece = "WORKFLOW" -> "workflow"
      [] piece = "Bob" -> "bob"
      [] piece = "GPT" -> "gpt"
      [] piece = "Gemini" -> "gemini"
      [] OTHER -> piece
Lower(text) == [k \in 1..Len(text) |-> LowerPiece(text[k])]

\* text.strip()
RECURSIVE Strip(_)
Strip(text) ==
    IF text = <<>> THEN text
    ELSE IF Head(text) = Blank THEN Strip(Tail(text))
    ELSE IF text[Len(text)] = Blank THEN Strip(SubSeq(text, 1, Len(text) - 1))
    ELSE text

NoIntent == [type |-> None]

\* mutant: the last matching pattern of a list wins
LastMatching(matching) == CHOOSE k \in matching : \A j \in matching : j <= k

\* the loop returns at the first pattern that matches
FirstMatching(matching) == CHOOSE k \in matching : \A j \in matching : k <= j

Matching(patterns, text) ==
    {k \in 1..Len(patterns) : Search(patterns[k], text).ok}

parse_intent(text) ==
    LET text_lower == Strip(Lower(text))
        handoffs == Matching(HANDOFF_PATTERNS, text_lower)
        flows == Matching(FLOW_PATTERNS, text_lower)
        h == HANDOFF_PATTERNS[FirstMatching(handoffs)]
        f == FLOW_PATTERNS[FirstMatching(flows)]
    IN  IF handoffs # {}
        THEN [type |-> "handoff", action |-> h.action,
              target |-> Search(h, text_lower).target, original |-> text]
        ELSE IF flows = {} THEN NoIntent
        ELSE IF Search(f, text_lower).grouped
        THEN [type |-> "flow", action |-> f.action,
              target |-> Search(f, text_lower).target, original |-> text]
        ELSE [type |-> "flow", action |-> f.action, original |-> text]

parse_verbal_command(text) ==
    /\ last' = Returned([call |-> "parse_verbal_command", text |-> text,
                         result |-> parse_intent(text)])
    /\ UNCHANGED <<workflows, files, ordering, runs, calls, streams, now, race,
                   handoff_history, exports, config_dir, orphans>>

\* what is said: one phrase, or a phrase followed by a second one
FirstPhrases ==
    {<<"hand", " ", "off", " ", "to", " ", "bob">>,
     <<"hand", "off", " ", "to", " ", "bob">>,
     <<"HAND", " ", "Off", " ", "TO", " ", "Bob">>,
     <<"switch", " ", "to", " ", "bob">>,
     <<"switch", " ", "to">>,
     <<"delegate", " ", "to", " ", "bob">>,
     <<"use", " ", "bob", " ", "agent">>,
     <<"re", "use", " ", " ", "bob", " ", "agent">>,
     <<"use", " ", "agent">>,
     <<"let", " ", "bob", " ", "hand", "le">>,
     <<"pass", " ", "to", " ", "bob">>,
     <<"transfer", " ", "to", " ", "bob">>,
     <<"continue", " ", "with", " ", "bob">>,
     <<"Pa", "use", " ", "WORKFLOW">>,
     <<"pa", "use", "workflow">>,
     <<"resume", " ", "workflow">>,
     <<"cancel", " ", "workflow">>,
     <<"restart", " ", "workflow">>,
     <<"skip", " ", "to", " ", "step", "-2">>,
     <<"go", " ", "back", " ", "to", " ", "step", "-1">>,
     <<"retry", " ", "last", " ", "step">>,
     <<"retry", " ", "step">>,
     <<" ", "please", " ">>,
     <<>>}
SecondPhrases ==
    {<<"pass", " ", "to", " ", "bob">>,
     <<"hand", " ", "off", " ", "to", " ", "bob">>,
     <<"let", " ", "bob", " ", "hand", "le">>,
     <<"agent">>,
     <<"pa", "use", " ", "workflow">>,
     <<"skip", " ", "to", " ", "step", "-2">>,
     <<"retry", " ", "step">>}
SpokenTexts ==
    FirstPhrases \cup
    {a \o <<" ">> \o b : a \in FirstPhrases, b \in SecondPhrases}

NextParse == \E text \in SpokenTexts : parse_verbal_command(text)

SpecParse == Init /\ [][NextParse]_vars

----------------------------------------------------------------------------
(* analyze_workflow_complexity.  The workflows analysed carry the fields   *)
(* the analysis reads: each step's node_type and description (a text in    *)
(* pieces, as above) and the workflow's trigger.                           *)

model_keywords ==
    <<"gemini", "gpt", "codex", "openai", "anthropic", "llama", "mistral">>

\* `model in desc_lower`
Mentions(description, model) ==
    \E k \in 1..Len(description) : Lower(description)[k] = model

\* external_models after the loop over steps[i..]: the keywords in the order
\* they are first met
RECURSIVE ExternalModels(_, _, _)
ExternalModels(steps, i, found) ==
    IF i > Len(steps) THEN found
    ELSE LET here == SelectSeq(model_keywords,
                        LAMBDA m : /\ Mentions(description_of(steps[i]), m)
                                   /\ \A k \in 1..Len(found) : found[k] # m)
         IN  ExternalModels(steps, i + 1, found \o here)

\* any(s.node_type in types for s in workflow.steps)
AnyNode(steps, types) ==
    \E i \in 1..Len(steps) : node_type_of(steps[i]) \in types

\* mutant: the score is returned without the cap
Uncapped(score) == score

\* min(score, 100)
Capped(score) == IF score < 100 THEN score ELSE 100

\* mutant: any workflow of at most four steps is recommended as a command
RecommendBySizeFirst(score, step_count, has_parallelism, has_external_models) ==
    IF step_count <= 4 THEN "command"
    ELSE IF score >= 50 \/ has_parallelism \/ has_external_models THEN "skill"
    ELSE "both"

Recommend(score, step_count, has_parallelism, has_external_models) ==
    IF score >= 50 \/ has_parallelism \/ has_external_models THEN "skill"
    ELSE IF step_count <= 4 /\ ~has_parallelism THEN "command"
    ELSE "both"

analysis(workflow) ==
    LET steps == workflow.steps
        step_count == Len(steps)
        has_parallelism == AnyNode(steps, {"parallel"}) \/ AnyNode(steps, {"join"})
        external_models == ExternalModels(steps, 1, <<>>)
        has_external_models == Len(external_models) > 0
        has_conditionals == AnyNode(steps, {"conditional"})
        has_hitl == AnyNode(steps, {"hitl"})
        has_loops == AnyNode(steps, {"loop_start", "loop_end"})
        score == (IF step_count <= 3 THEN 10
                  ELSE IF step_count <= 6 THEN 30 ELSE 50)
                 + (IF has_parallelism THEN 20 ELSE 0)
                 + (IF has_external_models THEN 15 ELSE 0)
                 + (IF has_conditionals THEN 10 ELSE 0)
                 + (IF has_hitl THEN 10 ELSE 0)
                 + (IF has_loops THEN 10 ELSE 0)
                 + (IF trigger_of(workflow) = "pattern" THEN 5 ELSE 0)
    IN  [complexity_score |-> Capped(score),
         recommended_export |-> Recommend(score, step_count, has_parallelism,
                                          has_external_models),
         has_parallelism |-> has_parallelism,
         has_external_models |-> has_external_models,
         external_models |-> external_models,
         has_conditionals |-> has_conditionals,
         has_hitl |-> has_hitl,
         has_loops |-> has_loops,
         step_count |-> step_count]

analyze_workflow_complexity(w) ==
    /\ last' = IF w \notin DOMAIN workflows THEN Failure
               ELSE Returned([call |-> "analyze_workflow_complexity",
                              workflow_id |-> w,
                              result |-> analysis(workflows[w])])
    /\ UNCHANGED <<workflows, files, ordering, runs, calls, streams, now, race,
                   handoff_history, exports, config_dir, orphans>>

\* the workflows analysed: some special nodes, one of them possibly naming
\* a model, and plain agent steps up to the step count; specials first or
\* last
SpecialNodes ==
    {"parallel", "join", "conditional", "hitl", "loop_start", "loop_end"}
AnalyzedDescriptions == {<<"review">>, <<"ask", " ", "GPT", " ", "and", " ", "Gemini">>}
AnalyzedTriggers == {"manual", "command", "pattern"}

AnalyzedStep(node_type, description) ==
    [id |-> node_type, node_type |-> node_type, description |-> description,
     next_steps |-> <<>>, conditions |-> EmptyDict]

\* the set `types` as a sequence, in the order of `all`
InOrder(all, types) == SelectSeq(all, LAMBDA x : x \in types)

AnalyzedSteps(specials, count, description, specials_first) ==
    LET special == InOrder(<<"parallel", "join", "conditional", "hitl",
                             "loop_start", "loop_end">>, specials)
        nodes == IF specials_first
                 THEN special \o [k \in 1..(count - Len(special)) |-> "agent"]
                 ELSE [k \in 1..(count - Len(special)) |-> "agent"] \o special
    IN  [k \in 1..count |->
            AnalyzedStep(nodes[k],
                         IF k = 1 THEN description ELSE <<"review">>)]

AnalyzedWorkflows ==
    UNION {{[id |-> "w1", name |-> "wf", entry_point |-> None,
             trigger |-> trigger,
             steps |-> AnalyzedSteps(specials, count, description, first)] :
               specials \in {s \in SUBSET SpecialNodes : Cardinality(s) <= count},
               description \in AnalyzedDescriptions, first \in BOOLEAN,
               trigger \in AnalyzedTriggers} :
           count \in 0..MaxAnalyzed}

InitAnalyze ==
    /\ \E wf \in AnalyzedWorkflows :
          /\ workflows = DictSet(EmptyDict, wf.id, wf)
          /\ files = save_workflow(EmptyDict, wf)
    /\ ordering = NoOrdering
    /\ runs = EmptyDict
    /\ calls = [c \in CallIds |-> Idle]
    /\ streams = [s \in StreamIds |-> NotOpen]
    /\ now = 1
    /\ last = Suspended
    /\ race = NoRace
    /\ handoff_history = <<>>
    /\ exports = NoExports
    /\ config_dir = TRUE
    /\ orphans = EmptyDict

NextAnalyze == \E w \in WfIds : analyze_workflow_complexity(w)

SpecAnalyze == InitAnalyze /\ [][NextAnalyze]_vars

----------------------------------------------------------------------------
(* Exports of a workflow: ~/.claude/skills/<id>/SKILL.md, the command file *)
(* <id>.md and <id>.prompt.md.  exports[id] is the state of these paths;   *)
(* an id that is no key has none of them.  The text written is a function  *)
(* of the workflow alone (no clock is read), kept here as the kind of      *)
(* export and the workflow it was rendered from.                           *)

NoFile == [exists |-> FALSE]
File(text) == [exists |-> TRUE, text |-> text]
NothingExported ==
    [skill_dir |-> FALSE, other_file |-> FALSE, skill |-> NoFile,
     command |-> NoFile, prompt |-> NoFile]
ExportsOf(w) == DictGet(exports, w, NothingExported)

\* to_skill_md, generate_command_md, generate_prompt_md
rendered(kind, workflow) == [kind |-> kind, workflow |-> workflow]

\* get_export_status: path.exists() for the three paths
export_status(w) ==
    [skill |-> ExportsOf(w).skill.exists,
     command |-> ExportsOf(w).command.exists,
     prompt |-> ExportsOf(w).prompt.exists]

Called(call, w, result) ==
    Returned([call |-> call, workflow_id |-> w, result |-> result])

get_export_status(w) ==
    /\ last' = Called("get_export_status", w, export_status(w))
    /\ UNCHANGED <<workflows, files, ordering, runs, calls, streams, now, race,
                   handoff_history, exports, config_dir, orphans>>

\* the paths of a workflow after one export of it: mkdir of the skill
\* directory and write_text of the file
written(e, kind, workflow) ==
    LET text == rendered(kind, workflow)
    IN  CASE kind = "export_as_skill" ->
               [e EXCEPT !.skill_dir = TRUE, !.skill = File(text)]
          [] kind = "export_as_command" ->
               [e EXCEPT !.command = File(text)]
          [] kind = "export_as_prompt" ->
               [e EXCEPT !.prompt = File(text)]

\* the generator returns None for an unknown workflow: nothing is written
export_as(kind, w) ==
    /\ IF w \notin DOMAIN workflows
       THEN /\ last' = Called(kind, w, None)
            /\ UNCHANGED exports
       ELSE /\ exports' = DictSet(exports, w,
                                  written(ExportsOf(w), kind, workflows[w]))
            /\ last' = Called(kind, w, "path")
    /\ UNCHANGED <<workflows, files, ordering, runs, calls, streams, now, race,
                   handoff_history, config_dir, orphans>>

export_as_skill(w) == export_as("export_as_skill", w)
export_as_command(w) == export_as("export_as_command", w)
export_as_prompt(w) == export_as("export_as_prompt", w)

\* smart_export: the recommended kinds, then always the prompt
smart_export(w) ==
    /\ IF w \notin DOMAIN workflows
       THEN /\ last' = Called("smart_export", w, [error |-> "Workflow not found"])
            /\ UNCHANGED exports
       ELSE LET workflow == workflows[w]
                recommended == analysis(workflow).recommended_export
                e1 == IF recommended \in {"skill", "both"}
                      THEN written(ExportsOf(w), "export_as_skill", workflow)
                      ELSE ExportsOf(w)
                e2 == IF recommended \in {"command", "both"}
                      THEN written(e1, "export_as_command", workflow)
                      ELSE e1
                kinds == (IF recommended \in {"skill", "both"}
                          THEN {"skill"} ELSE {})
                         \cup (IF recommended \in {"command", "both"}
                               THEN {"command"} ELSE {})
                         \cup {"prompt"}
            IN  /\ exports' = DictSet(exports, w,
                                      written(e2, "export_as_prompt", workflow))
                /\ last' = Called("smart_export", w,
                                  [analysis |-> analysis(workflow),
                                   exports |-> [k \in kinds |-> "path"]])
    /\ UNCHANGED <<workflows, files, ordering, runs, calls, streams, now, race,
                   handoff_history, config_dir, orphans>>

\* mutant: the skill directory is never removed
RmdirNever(dir_exists, has_other_file) == dir_exists

\* path.parent.rmdir() inside try/except OSError: whether the directory is
\* still there afterwards
Rmdir(dir_exists, has_other_file) == dir_exists /\ has_other_file

\* results[export_type]: True after an unlink, None when there was no file
Unlinked(file) == IF file.exists THEN "True" ELSE "None"

delete_exports(w) ==
    /\ LET e == ExportsOf(w)
       IN  /\ exports' =
                 DictSet(exports, w,
                    [e EXCEPT !.skill = NoFile,
                              !.skill_dir = IF e.skill.exists
                                            THEN Rmdir(e.skill_dir, e.other_file)
                                            ELSE e.skill_dir,
                              !.other_file = IF e.skill.exists
                                             THEN Rmdir(e.skill_dir, e.other_file)
                                             ELSE e.other_file,
                              !.command = NoFile,
                              !.prompt = NoFile])
           /\ last' = Called("delete_exports", w,
                             [skill |-> Unlinked(e.skill),
                              command |-> Unlinked(e.command),
                              prompt |-> Unlinked(e.prompt)])
    /\ UNCHANGED <<workflows, files, ordering, runs, calls, streams, now, race,
                   handoff_history, config_dir, orphans>>

\* somebody else puts a file into the skill directory of the workflow
OtherFileAppears(w) ==
    /\ ExportsOf(w).skill_dir
    /\ ~ExportsOf(w).other_file
    /\ exports' = DictSet(exports, w, [ExportsOf(w) EXCEPT !.other_file = TRUE])
    /\ last' = Suspended
    /\ UNCHANGED <<workflows, files, ordering, runs, calls, streams, now, race,
                   handoff_history, config_dir, orphans>>

\* a node with a "type" member
TypedNode(i, type) == [id |-> i, type |-> type]

\* stored workflows recommended as command, as both and as skill
ExportPayloads ==
    {d \in VisualPayloads : d.entry_point = "a" /\ Len(d.edges) = 1}
    \cup
    {[name |-> "wf", entry_point |-> "a",
      nodes |-> <<Node("a"), Node("b"), Node("c"), Node("d"), Node("e")>>,
      edges |-> <<Edge("a", "b", NoCondition)>>],
     [name |-> "wf", entry_point |-> "a",
      nodes |-> <<TypedNode("a", "parallel"), Node("b")>>,
      edges |-> <<Edge("a", "b", NoCondition)>>]}

NextExport ==
    \/ \E w \in WfIds, data \in ExportPayloads : CreateWorkflow(w, data)
    \/ \E w \in WfIds : export_as_skill(w)
    \/ \E w \in WfIds : export_as_command(w)
    \/ \E w \in WfIds : export_as_prompt(w)
    \/ \E w \in WfIds : smart_export(w)
    \/ \E w \in WfIds : get_export_status(w)
    \/ \E w \in WfIds : delete_exports(w)
    \/ \E w \in WfIds : OtherFileAppears(w)

SpecExport == Init /\ [][NextExport]_vars

----------------------------------------------------------------------------
(* get_next_steps and _evaluate_condition *)

\* `value in str(actual)` on the strings used as values
SubstringPairs == {<<"1", "1">>, <<"1", "12">>, <<"12", "12">>, <<"", "">>,
                   <<"", "1">>, <<"", "12">>}
Contains(value, text) == <<value, text>> \in SubstringPairs

\* mutant: an unrecognised operator rejects the edge
UnrecognizedOpRejects(condition, context) == FALSE

\* the final `return True`
UnrecognizedOp(condition, context) == TRUE

evaluate_condition(condition, context) ==
    LET op == DictGet(condition, "op", "eq")
        field == DictGet(condition, "field", "")
        value == DictGet(condition, "value", None)
        actual == DictGet(context, field, None)
    IN  CASE op = "eq" -> actual = value
          [] op = "ne" -> actual # value
          [] op = "contains" -> IF Truthy(actual) THEN Contains(value, actual)
                                ELSE FALSE
          [] op = "exists" -> field \in DOMAIN context
          [] op = "true" -> Truthy(actual)
          [] op = "false" -> ~Truthy(actual)
          [] OTHER -> UnrecognizedOp(condition, context)

\* the steps get_next_steps returns for a workflow that exists
next_steps_of(workflow, current_step, context) ==
    LET c == FirstStepWithId(workflow.steps, current_step)
        current == workflow.steps[c]
        condition(next_id) == DictGet(current.conditions, next_id, EmptyDict)
        passes(next_id) ==
            \/ condition(next_id) = EmptyDict
            \/ evaluate_condition(condition(next_id), context)
        found == SelectSeq(current.next_steps,
                           LAMBDA next_id : /\ HasStep(workflow, next_id)
                                            /\ passes(next_id))
    IN  IF c = 0 THEN <<>>
        ELSE [k \in 1..Len(found) |->
                workflow.steps[FirstStepWithId(workflow.steps, found[k])]]

get_next_steps(w, current_step, context) ==
    /\ last' = Returned([call |-> "get_next_steps",
                         workflow_id |-> w,
                         current_step |-> current_step,
                         context |-> context,
                         result |-> IF w \notin DOMAIN workflows THEN <<>>
                                    ELSE next_steps_of(workflows[w], current_step,
                                                       context)])
    /\ UNCHANGED <<workflows, files, ordering, runs, calls, streams, now, race,
                   handoff_history, exports, config_dir, orphans>>

EvalOps == {"eq", "ne", "contains", "exists", "true", "false", "gt", "EQ", ""}
KnownOps == {"eq", "ne", "contains", "exists", "true", "false"}
EvalConditions ==
    {[field |-> "f", op |-> op, value |-> "1"] : op \in EvalOps}
    \cup {[field |-> "f", value |-> "1"], [op |-> "matches"]}
EvalContexts == {EmptyDict, [f |-> "1"], [f |-> "12"], [f |-> ""], [g |-> "1"]}
EvalNextSteps == {<<"b">>, <<"b", "z">>, <<"c", "b">>}
EvalCurrentSteps == {"a", "b", "z"}

\* step a with its edges, the edge to b conditional or not; b and c are ends
EvalWorkflows ==
    {[id |-> "w1", name |-> "wf", entry_point |-> "a",
      steps |-> <<[id |-> "a", next_steps |-> ns, conditions |-> cs],
                  [id |-> "b", next_steps |-> <<>>, conditions |-> EmptyDict],
                  [id |-> "c", next_steps |-> <<>>, conditions |-> EmptyDict]>>] :
        ns \in EvalNextSteps,
        cs \in {EmptyDict} \cup {DictSet(EmptyDict, "b", c) : c \in EvalConditions}}

InitEval ==
    /\ \E wf \in EvalWorkflows :
          /\ workflows = DictSet(EmptyDict, wf.id, wf)
          /\ files = save_workflow(EmptyDict, wf)
    /\ ordering = NoOrdering
    /\ runs = EmptyDict
    /\ calls = [c \in CallIds |-> Idle]
    /\ streams = [s \in StreamIds |-> NotOpen]
    /\ now = 1
    /\ last = Suspended
    /\ race = NoRace
    /\ handoff_history = <<>>
    /\ exports = NoExports
    /\ config_dir = TRUE
    /\ orphans = EmptyDict

NextEval ==
    \E w \in WfIds \cup {"w9"}, cur \in EvalCurrentSteps, context \in EvalContexts :
        get_next_steps(w, cur, context)

SpecEval == InitEval /\ [][NextEval]_vars

----------------------------------------------------------------------------
(* Several runs side by side: uuid4 yields the tokens r1 and r2, either of *)
(* which can come again, and requests name the run ids r1, r2 whether or   *)
(* not they are allocated yet.  The workflow of a run can be deleted under *)
(* it; a run is ended by advance or cancelled by complete.                 *)

ManyRunTokens == {"r1", "r2"}
ManyRunIds == ManyRunTokens
ManyPayloads == {p \in VisualPayloads : p.entry_point = "a" /\ Len(p.edges) = 1}
ManyNextSteps == {None}
ManyStatuses == {"cancelled"}
DeleteStored(w) == w \in DOMAIN workflows /\ DeleteWorkflow(w)

NextMany ==
    \/ \E w \in WfIds, data \in ManyPayloads : StoreWorkflow(w, data)
    \/ \E w \in WfIds : DeleteStored(w)
    \/ \E c \in CallIds, w \in WfIds : ExecuteCalled(c, w)
    \/ \E c \in CallIds, prompt \in Prompts, run_id \in ManyRunTokens :
          ExecuteResume(c, prompt, run_id)
    \/ \E r \in ManyRunIds : GetRun(r)
    \/ \E c \in CallIds, r \in ManyRunIds : AdvanceBegin(c, r)
    \/ \E c \in CallIds, next_step \in ManyNextSteps :
          AdvanceResume(c, "o1", next_step)
    \/ \E c \in CallIds, r \in ManyRunIds : CompleteBegin(c, r)
    \/ \E c \in CallIds, status \in ManyStatuses : CompleteResume(c, status, None)
    \/ \E s \in StreamIds, r \in ManyRunIds : StreamOpen(s, r)
    \/ \E s \in StreamIds : StreamEmit(s)
    \/ \E s \in StreamIds : StreamTest(s)

SpecMany == Init /\ [][NextMany]_vars

----------------------------------------------------------------------------
(* A progress stream over one run.  While the client stays connected the   *)
(* generator is resumed after every asyncio.sleep(0.5), so a poll that is  *)
(* possible is eventually made.                                            *)

StreamStatuses == {None, "cancelled", "paused"}
StreamEmitted == \E s \in StreamIds : StreamEmit(s)
StreamTested == \E s \in StreamIds : StreamTest(s)

NextStream ==
    \/ \E w \in WfIds, data \in ManyPayloads : StoreWorkflow(w, data)
    \/ \E c \in CallIds, w \in WfIds : ExecuteCalled(c, w)
    \/ \E c \in CallIds, prompt \in Prompts, run_id \in RunTokens :
          ExecuteResume(c, prompt, run_id)
    \/ AdvanceCalled
    \/ AdvanceResumed
    \/ \E c \in CallIds, r \in RunIds : CompleteBegin(c, r)
    \/ \E c \in CallIds, status \in StreamStatuses, error \in ErrorInputs :
          CompleteResume(c, status, error)
    \/ \E s \in StreamIds, r \in RunIds : StreamOpen(s, r)
    \/ StreamEmitted
    \/ StreamTested

SpecStream ==
    /\ Init
    /\ [][NextStream]_vars
    /\ WF_vars(StreamEmitted)
    /\ WF_vars(StreamTested)

----------------------------------------------------------------------------
(* Properties of the run executor *)

\* C1: once a run's status is completed, error or cancelled, no later step
\* changes its status.
C1_TerminalStatusNeverChanges ==
    [][\A r \in DOMAIN runs :
          IsTerminal(runs[r]) => runs'[r].status = runs[r].status]_vars

\* C2: an advance call that finds the run not running returns a failure
\* result, leaves the run record as it is and leaves no handler suspended
\* that could change it later.
C2_AdvanceOnStoppedRunIsNoOp ==
    [][\A c \in CallIds, r \in RunIds :
          (AdvanceBegin(c, r) /\ r \in DOMAIN runs /\ runs[r].status # "running")
          => (last' = Failure /\ runs' = runs /\ calls' = calls)]_vars

C2_Witness ==
    \E r \in DOMAIN runs :
        /\ last = Failure
        /\ runs[r].status \in {"completed", "cancelled", "paused"}

\* C3: execute on a workflow id that is in the store suspends holding that
\* workflow, and on resumption stores under its run id a run with status running,
\* current_step the workflow's entry_point, no completed step, no output and
\* no finish time; execute on an id that is not in the store answers 404 and
\* creates no run, now or later.
C3_ExecuteCreatesRunningRun ==
    [][/\ \A c \in CallIds, w \in WfIds :
             ExecuteBegin(c, w) =>
                /\ runs' = runs
                /\ IF w \in DOMAIN workflows
                   THEN /\ calls'[c].op = "execute"
                        /\ calls'[c].workflow = workflows[w]
                   ELSE last' = NotFound /\ calls' = calls
       /\ \A c \in CallIds, prompt \in Prompts, id \in RunTokens :
             ExecuteResume(c, prompt, id) =>
                /\ DOMAIN runs' = (DOMAIN runs) \cup {id}
                /\ runs'[id].status = "running"
                /\ runs'[id].current_step = calls[c].workflow.entry_point
                /\ runs'[id].completed_steps = <<>>
                /\ DOMAIN runs'[id].step_outputs = {}
                /\ runs'[id].finished_at = NoTime
                /\ last' = Ok]_vars

C3_Witness ==
    \E r \in DOMAIN runs :
        /\ last = Ok
        /\ now = 2
        /\ runs[r].status = "running"
        /\ runs[r].current_step = "a"
        /\ runs[r].completed_steps = <<>>
        /\ \A c \in CallIds : calls[c] = Idle

\* C4: a successful advance on a running run whose current_step is a step
\* id s appends s to completed_steps and stores the supplied output under
\* s, keeping the earlier completed steps and the other steps' outputs.
C4_AdvanceRecordsCurrentStep ==
    [][\A c \in CallIds, output \in Outputs, next_step \in NextStepInputs :
          (/\ calls[c].op = "advance"
           /\ runs[calls[c].run].status = "running"
           /\ Truthy(runs[calls[c].run].current_step)
           /\ last' = Ok
           /\ AdvanceResume(c, output, next_step))
          => LET old == runs[calls[c].run]
                 new == runs'[calls[c].run]
                 s == old.current_step
             IN  /\ new.completed_steps = old.completed_steps \o <<s>>
                 /\ DOMAIN new.step_outputs = (DOMAIN old.step_outputs) \cup {s}
                 /\ new.step_outputs[s] = OutputOf(output)
                 /\ \A k \in (DOMAIN old.step_outputs) \ {s} :
                       new.step_outputs[k] = old.step_outputs[k]]_vars

C4_Witness ==
    \E r \in DOMAIN runs :
        /\ last = Ok
        /\ runs[r].status = "running"
        /\ runs[r].completed_steps = <<"a", "b">>
        /\ runs[r].step_outputs["a"] = "o1"
        /\ runs[r].step_outputs["b"] = ""

\* C5 as stated: advance on a running run with an explicit (non-empty)
\* next_step n sets current_step to n and keeps the run running.
C5_ExplicitNextStepAlwaysTaken ==
    [][\A c \in CallIds, output \in Outputs, next_step \in NextStepInputs :
          (/\ next_step \notin {None, ""}
           /\ calls[c].op = "advance"
           /\ runs[calls[c].run].status = "running"
           /\ AdvanceResume(c, output, next_step))
          => /\ runs'[calls[c].run].current_step = next_step
             /\ runs'[calls[c].run].status = "running"]_vars

\* C5 amended: advance on a running run whose workflow is still in the
\* store, with an explicit (non-empty) next_step n, sets current_step to n
\* whether or not n is an edge target or a step of the workflow, and keeps
\* the run running.
C5_NonEmptyNextStepTaken ==
    [][\A c \in CallIds, output \in Outputs, next_step \in NextStepInputs :
          (/\ next_step \notin {None, ""}
           /\ calls[c].op = "advance"
           /\ runs[calls[c].run].status = "running"
           /\ runs[calls[c].run].workflow_id \in DOMAIN workflows
           /\ AdvanceResume(c, output, next_step))
          => /\ runs'[calls[c].run].current_step = next_step
             /\ runs'[calls[c].run].status = "running"
             /\ last' = Ok]_vars

\* the run was moved from step b to x, which is neither a target of an edge
\* of b nor a step of any workflow
C5_Witness ==
    \E r \in DOMAIN runs :
        /\ last = Ok
        /\ runs[r].status = "running"
        /\ runs[r].current_step = "x"
        /\ runs[r].completed_steps # <<>>
        /\ runs[r].completed_steps[Len(runs[r].completed_steps)] = "b"

\* the target of the first outgoing edge of step `cur` of workflow wf, read
\* off the steps' next_steps; None when there is no such edge
FirstEdgeTarget(wf, cur) ==
    LET withEdge == {i \in DOMAIN wf.steps :
                        wf.steps[i].id = cur /\ wf.steps[i].next_steps # <<>>}
        first == CHOOSE i \in withEdge : \A j \in withEdge : i <= j
    IN  IF withEdge = {} THEN None ELSE wf.steps[first].next_steps[1]

\* the outgoing edges of the run's current step in the store, none when the
\* run's workflow is gone
CurrentFirstTarget(run) ==
    IF run.workflow_id \in DOMAIN workflows
    THEN FirstEdgeTarget(workflows[run.workflow_id], run.current_step)
    ELSE None

DefaultAdvanceEffect(c) ==
    LET old == runs[calls[c].run]
        new == runs'[calls[c].run]
        target == CurrentFirstTarget(old)
    IN  IF target # None
        THEN new.current_step = target /\ new.status = "running"
        ELSE /\ new.status = "completed"
             /\ new.finished_at # NoTime
             /\ new.current_step = None

\* C6 as stated: advance on a running run without next_step moves to the
\* target of the current step's first outgoing edge and keeps the run
\* running, or, when there is no outgoing edge, completes the run.
C6_DefaultAdvanceAlways ==
    [][\A c \in CallIds, output \in Outputs :
          (/\ calls[c].op = "advance"
           /\ runs[calls[c].run].status = "running"
           /\ AdvanceResume(c, output, None))
          => DefaultAdvanceEffect(c)]_vars

\* C6 amended: the same, for a run whose workflow is still in the store.
C6_DefaultAdvanceWhenWorkflowExists ==
    [][\A c \in CallIds, output \in Outputs :
          (/\ calls[c].op = "advance"
           /\ runs[calls[c].run].status = "running"
           /\ runs[calls[c].run].workflow_id \in DOMAIN workflows
           /\ AdvanceResume(c, output, None))
          => DefaultAdvanceEffect(c) /\ last' = Ok]_vars

\* the run followed the conditional first edge a -> x and was completed at x
C6_Witness ==
    \E r \in DOMAIN runs :
        /\ last = Ok
        /\ runs[r].status = "completed"
        /\ runs[r].current_step = None
        /\ runs[r].finished_at # NoTime
        /\ runs[r].completed_steps = <<"a", "x">>

\* C8: in every reachable state a run's status is one of running, completed,
\* error, cancelled (complete leaves a terminal status).
C8_StatusIsAlwaysValid ==
    \A r \in DOMAIN runs : runs[r].status \in RunStatuses

\* C9 as stated: no run is ever cancelled.
C9_CancelledUnreachable ==
    \A r \in DOMAIN runs : runs[r].status # "cancelled"

\* C9 amended: a run's status becomes cancelled only through a complete call
\* with status cancelled; execute, advance, stream and fetch never set it,
\* neither on a run in the map nor on a replaced run that advance still
\* holds.
C9_CancelledOnlyByComplete ==
    [][/\ \A r \in DOMAIN runs' :
             (/\ runs'[r].status = "cancelled"
              /\ (r \in DOMAIN runs => runs[r].status # "cancelled"))
             => \E c \in CallIds, error \in ErrorInputs :
                   /\ calls[c].op = "complete"
                   /\ calls[c].run = r
                   /\ CompleteResume(c, "cancelled", error)
       /\ \A o \in DOMAIN orphans' :
             orphans'[o].status = "cancelled"
             => \/ o \in DOMAIN orphans /\ orphans[o].status = "cancelled"
                \/ \E r \in DOMAIN runs :
                      runs[r].status = "cancelled" /\ orphans'[o] = runs[r]]_vars

C9_Witness ==
    \E r \in DOMAIN runs : runs[r].status = "cancelled" /\ last = Ok

\* C10: two advance calls can both pass the running check on the same record
\* before either mutates it, and the second mutation is applied to whatever
\* the first left.  Whenever such a pair ends in a record that differs from
\* both serial orders, the first call had already ended the run.
C10_OverlapOnlyHurtsEndedRun ==
    race.st = "done" =>
        /\ race.base.status = "running"
        /\ (runs[race.run] \notin {race.ab, race.ba} => race.mid.status # "running")

\* an overlap whose final record differs from both serial orders: the second
\* call set current_step on a run the first had completed
C10_Witness ==
    /\ race.st = "done"
    /\ runs[race.run] \notin {race.ab, race.ba}
    /\ race.mid.status = "completed"
    /\ runs[race.run].status = "completed"
    /\ runs[race.run].current_step = "x"

\* C11: runs are independent.  Execute on a stored workflow is accepted
\* however many runs exist and, on resumption, adds exactly one run and
\* leaves the existing ones as they are; advance and complete on run r leave
\* every other run as it is; no step removes a run.
C11_RunsAreIndependent ==
    [][/\ DOMAIN runs \subseteq DOMAIN runs'
       /\ \A c \in CallIds, w \in WfIds :
             (w \in DOMAIN workflows /\ ExecuteBegin(c, w))
             => calls'[c].op = "execute" /\ runs' = runs
       /\ \A c \in CallIds, prompt \in Prompts, id \in ManyRunTokens :
             ExecuteResume(c, prompt, id)
             => /\ id \notin DOMAIN runs
                /\ DOMAIN runs' = (DOMAIN runs) \cup {id}
                /\ \A r \in DOMAIN runs : runs'[r] = runs[r]
       /\ \A c \in CallIds, output \in Outputs, next_step \in ManyNextSteps :
             (calls[c].op = "advance" /\ AdvanceResume(c, output, next_step))
             => \A r \in (DOMAIN runs) \ {calls[c].run} : runs'[r] = runs[r]
       /\ \A c \in CallIds, r \in ManyRunIds : CompleteBegin(c, r) => runs' = runs
       /\ \A c \in CallIds, status \in ManyStatuses, error \in ErrorInputs :
             (calls[c].op = "complete" /\ CompleteResume(c, status, error))
             => \A q \in (DOMAIN runs) \ {calls[c].run} : runs'[q] = runs[q]]_vars

\* C12: every event of an open stream carries the run's record as it is
\* when the event is produced; the stream ends right after the first event
\* whose status is completed, error or cancelled, and not before; no event
\* follows such an event; and a stream whose run is in one of these statuses
\* eventually ends unless the run leaves them.
C12_StreamEndsAtTerminalSnapshot ==
    /\ [][\A s \in StreamIds :
             /\ StreamEmit(s) =>
                   /\ last' = Emitted(runs[streams[s].run])
                   /\ streams[s].sent \notin {"completed", "error", "cancelled"}
             /\ StreamTest(s) =>
                   (streams'[s] = NotOpen
                      <=> streams[s].sent \in {"completed", "error", "cancelled"})]_vars
    /\ \A s \in StreamIds :
          (/\ streams[s] # NotOpen
           /\ runs[streams[s].run].status \in {"completed", "error", "cancelled"})
          ~> (\/ streams[s] = NotOpen
              \/ runs[streams[s].run].status \notin
                    {"completed", "error", "cancelled"})

\* C13: fetch, advance, complete and stream on a run id that is not in the
\* run map, and execute on a workflow id that is not in the workflow map,
\* answer 404 and change neither map; no handler stays suspended and no
\* stream is opened for the unknown id.
C13_UnknownIdIsNotFound ==
    [][/\ \A r \in ManyRunIds \ DOMAIN runs :
             /\ GetRun(r) => last' = NotFound /\ runs' = runs /\ workflows' = workflows
             /\ \A c \in CallIds :
                   AdvanceBegin(c, r) => /\ last' = NotFound
                                         /\ runs' = runs /\ workflows' = workflows
                                         /\ calls' = calls
             /\ \A c \in CallIds :
                   CompleteBegin(c, r) => /\ last' = NotFound
                                          /\ runs' = runs /\ workflows' = workflows
                                          /\ calls' = calls
             /\ \A s \in StreamIds :
                   StreamOpen(s, r) => /\ last' = NotFound
                                       /\ runs' = runs /\ workflows' = workflows
                                       /\ streams' = streams
       /\ \A w \in WfIds \ DOMAIN workflows :
             \A c \in CallIds :
                ExecuteBegin(c, w) => /\ last' = NotFound
                                      /\ runs' = runs /\ workflows' = workflows
                                      /\ calls' = calls]_vars

\* a request was answered 404 while another run exists: r2 is unknown, r1 is
\* in the run map and nothing was created for r2
C13_Witness ==
    /\ last = NotFound
    /\ DOMAIN runs = {"r1"}
    /\ runs["r1"].status = "running"
    /\ \A c \in CallIds : calls[c] = Idle
    /\ streams = [s \in StreamIds |-> NotOpen]

\* the next_steps graph of a workflow: its nodes are the ids of its steps,
\* its edges the next_steps entries that name a step; where an id is
\* declared twice the later declaration is the node
StepIdsOf(wf) == {wf.steps[i].id : i \in 1..Len(wf.steps)}
UniqueStepIds(wf) == Cardinality(StepIdsOf(wf)) = Len(wf.steps)
Successors(wf, id) ==
    LET last_i == CHOOSE i \in 1..Len(wf.steps) :
                     /\ wf.steps[i].id = id
                     /\ \A j \in 1..Len(wf.steps) : wf.steps[j].id = id => j <= i
        ns == wf.steps[last_i].next_steps
    IN  StepIdsOf(wf) \cap {ns[k] : k \in 1..Len(ns)}

RECURSIVE ReachableFrom(_, _)
ReachableFrom(wf, ids) ==
    LET more == ids \cup UNION {Successors(wf, i) : i \in ids}
    IN  IF more = ids THEN ids ELSE ReachableFrom(wf, more)

HasCycle(wf) ==
    \E id \in StepIdsOf(wf) : id \in ReachableFrom(wf, Successors(wf, id))

OrderedIds == [k \in 1..Len(ordering.ordered) |-> ordering.ordered[k].step.id]
OrderedWorkflow == workflows[ordering.workflow]

\* C14: on a workflow with an entry point and an acyclic next_steps graph
\* the finished ordering lists exactly the steps
\* reachable from the entry point, each once, numbered 1..N in list order.
C14_AcyclicOrderIsReachableSet ==
    (/\ ordering.pc = "done"
     /\ Truthy(OrderedWorkflow.entry_point)
     /\ ~HasCycle(OrderedWorkflow))
    => /\ {OrderedIds[k] : k \in 1..Len(OrderedIds)} =
            ReachableFrom(OrderedWorkflow,
                          {OrderedWorkflow.entry_point} \cap StepIdsOf(OrderedWorkflow))
       /\ \A j, k \in 1..Len(OrderedIds) : j # k => OrderedIds[j] # OrderedIds[k]
       /\ \A k \in 1..Len(OrderedIds) :
             /\ ordering.ordered[k].num = k
             /\ ordering.ordered[k].step \in
                   {OrderedWorkflow.steps[i] : i \in 1..Len(OrderedWorkflow.steps)}

\* the diamond a -> b, c and b -> c: c is queued twice and numbered once
C14_Witness ==
    /\ ordering.pc = "done"
    /\ OrderedWorkflow.entry_point = "a"
    /\ OrderedWorkflow.steps[1].next_steps = <<"b", "c">>
    /\ OrderedWorkflow.steps[2].next_steps = <<"c">>
    /\ ~HasCycle(OrderedWorkflow)
    /\ OrderedIds = <<"a", "b", "c">>

NoIdNumberedTwice ==
    \A j, k \in 1..Len(OrderedIds) : j # k => OrderedIds[j] # OrderedIds[k]

RECURSIVE BreadthFirst(_, _, _, _)
BreadthFirst(wf, queue, visited, out) ==
    IF queue = <<>> THEN [visited |-> visited, out |-> out]
    ELSE IF Head(queue) \in visited \/ ~HasStep(wf, Head(queue))
    THEN BreadthFirst(wf, Tail(queue), visited \cup {Head(queue)}, out)
    ELSE BreadthFirst(wf, Tail(queue) \o StepById(wf, Head(queue)).next_steps,
                      visited \cup {Head(queue)}, Append(out, Head(queue)))

RECURSIVE BreadthFirstFromEach(_, _, _, _)
BreadthFirstFromEach(wf, i, visited, out) ==
    IF i > Len(wf.steps) THEN out
    ELSE LET r == BreadthFirst(wf, <<wf.steps[i].id>>, visited, out)
         IN  BreadthFirstFromEach(wf, i + 1, r.visited, r.out)

\* C16 as stated: without an entry point the ordering is that traversal.
C16_NoEntryOrderIsBreadthFirst ==
    (ordering.pc = "done" /\ ~Truthy(OrderedWorkflow.entry_point))
    => OrderedIds = BreadthFirstFromEach(OrderedWorkflow, 1, {}, <<>>)

\* C16 amended: without an entry point the ordering is the declaration
\* order of the steps, numbered 1..N, whatever the next_steps edges are.
C16_NoEntryOrderIsDeclarationOrder ==
    (ordering.pc = "done" /\ ~Truthy(OrderedWorkflow.entry_point))
    => /\ Len(ordering.ordered) = Len(OrderedWorkflow.steps)
       /\ \A k \in 1..Len(ordering.ordered) :
             /\ ordering.ordered[k].num = k
             /\ ordering.ordered[k].step = OrderedWorkflow.steps[k]

\* a -> c with b declared between them: b is numbered 2 and c 3, where the
\* traversal from a would number c before b
C16_Witness ==
    /\ ordering.pc = "done"
    /\ OrderedWorkflow.entry_point = None
    /\ OrderedWorkflow.steps[1].next_steps = <<"c">>
    /\ OrderedIds = <<"a", "b", "c">>
    /\ ordering.ordered[3].num = 3

\* the chain of first outgoing edges from `cur` reaches, within `fuel`
\* edges, a step without outgoing edge
RECURSIVE ChainEnds(_, _, _)
\* C17: in every state reached through the editing API each workflow's
\* entry_point is none or the id of one of its current steps.
C17_EntryPointNamesAStep ==
    \A w \in DOMAIN workflows :
        \/ workflows[w].entry_point = None
        \/ workflows[w].entry_point \in StepIdsOf(workflows[w])

\* C18: in every state reached through the editing API every id in a
\* step's next_steps and every key of its conditions is the id of a step
\* of the same workflow.
C18_EdgesNameSteps ==
    \A w \in DOMAIN workflows :
        \A i \in 1..Len(workflows[w].steps) :
            LET step == workflows[w].steps[i]
            IN  /\ \A k \in 1..Len(step.next_steps) :
                       step.next_steps[k] \in StepIdsOf(workflows[w])
                /\ DOMAIN step.conditions \subseteq StepIdsOf(workflows[w])

\* C19: add_step (with a generated or a caller-supplied id) and
\* remove_step never leave two steps of a workflow with the same id: a call
\* on a workflow whose step ids are distinct leaves them distinct.
C19_StepIdsStayUnique ==
    [][\A w \in StoreWfIds :
          ( /\ w \in DOMAIN workflows
            /\ UniqueStepIds(workflows[w])
            /\ \/ \E id \in AddStepIds : add_step(w, id, <<>>)
               \/ \E s \in StoreStepIds : remove_step(w, s) )
          => UniqueStepIds(workflows'[w])]_vars

\* the file of workflow w holds every field of the in-memory workflow
FileHoldsWorkflow(w) ==
    LET file == files[w]
        workflow == workflows[w]
    IN  /\ file.id = workflow.id
        /\ file.name = workflow.name
        /\ file.entry_point = workflow.entry_point
        /\ Len(file.steps) = Len(workflow.steps)
        /\ \A i \in 1..Len(workflow.steps) :
              /\ file.steps[i].id = workflow.steps[i].id
              /\ file.steps[i].next_steps = workflow.steps[i].next_steps
              /\ file.steps[i].conditions = workflow.steps[i].conditions

\* C20: between operations the persisted workflows are exactly the
\* in-memory ones, each file holding every field of its workflow, and
\* delete_workflow leaves neither the entry nor the file of its id.
C20_FilesMirrorMemory ==
    /\ [](/\ DOMAIN files = DOMAIN workflows
          /\ \A w \in DOMAIN workflows : FileHoldsWorkflow(w))
    /\ [][\A w \in StoreWfIds :
             (w \in DOMAIN workflows /\ DeleteWorkflow(w))
             => (w \notin DOMAIN workflows' /\ w \notin DOMAIN files')]_vars

\* an edited workflow with an edge and a condition, saved after the edit
C20_Witness ==
    /\ last = Ok
    /\ \E w \in DOMAIN workflows :
          /\ w \in DOMAIN files
          /\ FileHoldsWorkflow(w)
          /\ Len(workflows[w].steps) = 2
          /\ \E i \in 1..Len(workflows[w].steps) :
                /\ workflows[w].steps[i].next_steps # <<>>
                /\ workflows[w].steps[i].conditions # EmptyDict

\* C30: in every reachable state a run whose status is completed, error or
\* cancelled has a finished_at time, also when advance set the error because
\* the workflow of the run had been deleted.
C30_TerminalRunHasFinishedAt ==
    \A r \in DOMAIN runs :
        IsTerminal(runs[r]) => runs[r].finished_at # NoTime

\* C29: remove_step(w, s) on an existing workflow leaves no step with id s,
\* no s in a remaining step's next_steps or conditions keys, moves an entry
\* point that was s to the first remaining step (none when no step is
\* left), and changes nothing else in the remaining steps.
C29_RemoveStepDropsEveryReference ==
    [][\A w \in StoreWfIds, s \in StoreStepIds :
          (w \in DOMAIN workflows /\ remove_step(w, s))
          => LET old == workflows[w]
                 new == workflows'[w]
                 kept == SelectSeq(old.steps, LAMBDA x : x.id # s)
             IN  /\ s \notin StepIdsOf(new)
                 /\ Len(new.steps) = Len(kept)
                 /\ \A i \in 1..Len(kept) :
                       /\ new.steps[i].id = kept[i].id
                       /\ new.steps[i].next_steps =
                             SelectSeq(kept[i].next_steps, LAMBDA x : x # s)
                       /\ new.steps[i].conditions =
                             DictDel(kept[i].conditions, s)
                 /\ old.entry_point = s =>
                       new.entry_point =
                           (IF kept # <<>> THEN kept[1].id ELSE None)]_vars

\* number of edges on a shortest path from the entry point to step id,
\* -1 when there is none
RECURSIVE DistanceWalk(_, _, _, _)
DistanceWalk(wf, seen, id, n) ==
    LET more == seen \cup UNION {Successors(wf, i) : i \in seen}
    IN  IF id \in seen THEN n
        ELSE IF more = seen THEN -1
        ELSE DistanceWalk(wf, more, id, n + 1)

Distance(wf, id) ==
    DistanceWalk(wf, {wf.entry_point} \cap StepIdsOf(wf), id, 0)

\* C28: with entry_point set the ordering is breadth-first: an entry step is
\* number 1, a step nearer to the entry point has a smaller number than a
\* step farther from it, a step gets its number the first time it is
\* dequeued and none later, and edge targets that are not steps get no
\* number and leave no gap.
C28_OrderIsBreadthFirst ==
    /\ []((ordering.pc = "done" /\ Truthy(OrderedWorkflow.entry_point))
          => /\ HasStep(OrderedWorkflow, OrderedWorkflow.entry_point)
                   => /\ OrderedIds # <<>>
                      /\ OrderedIds[1] = OrderedWorkflow.entry_point
                      /\ ordering.ordered[1].num = 1
             /\ \A j, k \in 1..Len(OrderedIds) :
                   Distance(OrderedWorkflow, OrderedIds[j])
                      < Distance(OrderedWorkflow, OrderedIds[k])
                   => ordering.ordered[j].num < ordering.ordered[k].num
             /\ NoIdNumberedTwice
             /\ \A k \in 1..Len(OrderedIds) :
                   /\ ordering.ordered[k].num = k
                   /\ HasStep(OrderedWorkflow, OrderedIds[k]))
    /\ [][(ordering.pc = "loop" /\ OrderLoop)
          => LET step_id == Head(ordering.queue)
             IN  IF /\ step_id \notin ordering.visited
                    /\ HasStep(OrderedWorkflow, step_id)
                 THEN ordering'.ordered =
                        Append(ordering.ordered,
                               [num |-> Len(ordering.ordered) + 1,
                                step |-> StepById(OrderedWorkflow, step_id)])
                 ELSE ordering'.ordered = ordering.ordered]_vars

\* a -> b, c; b -> z, d; c -> d: d is two edges away and queued twice, z is
\* no step
C28_Witness ==
    /\ ordering.pc = "done"
    /\ Len(OrderedWorkflow.steps) = 4
    /\ OrderedWorkflow.steps[1].next_steps = <<"b", "c">>
    /\ OrderedWorkflow.steps[2].next_steps = <<"z", "d">>
    /\ OrderedWorkflow.steps[3].next_steps = <<"d">>
    /\ OrderedIds = <<"a", "b", "c", "d">>
    /\ Distance(OrderedWorkflow, "d") = 2

\* the number of execute_handoff calls made: each call reads the clock once
HandoffsExecuted == now - 1

\* C22: after n execute_handoff calls the history holds min(n, 50) entries,
\* the last min(n, 50) handoffs executed in execution order, and a call
\* only appends the new handoff and drops the oldest ones: no entry is
\* changed or moved.
C22_HistoryIsLastFifty ==
    /\ [](LET n == HandoffsExecuted
              len == IF n < 50 THEN n ELSE 50
          IN  /\ Len(handoff_history) = len
              /\ \A k \in 1..len : handoff_history[k].timestamp = n - len + k)
    /\ [][\A to_agent \in HandoffTargets(now) :
             execute_handoff("user", to_agent, EmptyDict, "User requested")
             => LET all == Append(handoff_history, last'.data)
                    drop == Len(all) - Len(handoff_history')
                IN  /\ last'.data.to_agent = to_agent
                    /\ drop \in {0, 1}
                    /\ handoff_history' =
                          [k \in 1..Len(handoff_history') |-> all[k + drop]]]_vars

\* 52 handoffs made: the first two have been dropped
C22_Witness ==
    /\ HandoffsExecuted = 52
    /\ Len(handoff_history) = 50
    /\ handoff_history[1].timestamp = 3
    /\ handoff_history[49].to_agent = "coder"
    /\ handoff_history[50].timestamp = 52

\* last is the result of a get_next_steps call on an existing step
NextStepsReturned ==
    /\ last.ok
    /\ "data" \in DOMAIN last
    /\ last.data.call = "get_next_steps"
    /\ last.data.workflow_id \in DOMAIN workflows
    /\ HasStep(workflows[last.data.workflow_id], last.data.current_step)

\* C27: a condition whose operator is none of eq, ne, contains, exists,
\* true, false evaluates to true on every context, so get_next_steps
\* returns the target step of an edge with such a condition whatever the
\* context is; the target step of an edge without a condition is always
\* returned.
C27_UnknownOperatorFailsOpen ==
    /\ \A condition \in EvalConditions, context \in EvalContexts :
          DictGet(condition, "op", "eq") \notin KnownOps
          => evaluate_condition(condition, context)
    /\ NextStepsReturned
       => LET workflow == workflows[last.data.workflow_id]
              current == workflow.steps[
                            FirstStepWithId(workflow.steps, last.data.current_step)]
          IN  \A k \in 1..Len(current.next_steps) :
                 LET next_id == current.next_steps[k]
                 IN  ( /\ HasStep(workflow, next_id)
                       /\ \/ next_id \notin DOMAIN current.conditions
                          \/ DictGet(current.conditions[next_id], "op", "eq")
                                \notin KnownOps )
                     => \E i \in 1..Len(last.data.result) :
                           last.data.result[i].id = next_id

\* the edge a -> b carries operator gt and the context holds no field f: an
\* eq test would fail here, the unknown operator lets b through
C27_Witness ==
    /\ NextStepsReturned
    /\ last.data.current_step = "a"
    /\ last.data.context = EmptyDict
    /\ "b" \in DOMAIN workflows["w1"].steps[1].conditions
    /\ DictGet(workflows["w1"].steps[1].conditions["b"], "op", "eq") = "gt"
    /\ workflows["w1"].steps[1].next_steps = <<"c", "b">>
    /\ Len(last.data.result) = 2
    /\ last.data.result[2].id = "b"

\* the files of the directory that hold a JSON object
WorkflowFiles == {f \in DOMAIN files : files[f] \notin {NotJson, JsonArray}}

\* the id a workflow file names: the "id" member, "" without one
IdIn(f) == IF "id" \in DOMAIN files[f] THEN files[f].id ELSE ""

\* the workflow a file holds, member by member
HoldsWorkflow(f, workflow) ==
    LET data == files[f]
        steps == IF "steps" \in DOMAIN data THEN data.steps ELSE <<>>
    IN  /\ workflow.id = IdIn(f)
        /\ workflow.name = data.name
        /\ workflow.entry_point =
              (IF "entry_point" \in DOMAIN data THEN data.entry_point ELSE None)
        /\ Len(workflow.steps) = Len(steps)
        /\ \A i \in 1..Len(steps) :
              /\ workflow.steps[i].id = steps[i].id
              /\ workflow.steps[i].next_steps = steps[i].next_steps
              /\ workflow.steps[i].conditions = steps[i].conditions

\* C21 as stated: load over an existing directory never raises, afterwards
\* every parseable file is
\* in memory under its id, no entry comes from an unparsable file, and the
\* directory is unchanged.
C21_LoadKeepsEveryParseableFile ==
    [][(config_dir /\ load_workflows)
       => /\ last' = Ok
          /\ files' = files
          /\ \A f \in WorkflowFiles :
                /\ IdIn(f) \in DOMAIN workflows'
                /\ HoldsWorkflow(f, workflows'[IdIn(f)])
          /\ DOMAIN workflows' = {IdIn(f) : f \in WorkflowFiles}]_vars

\* C21 amended: load over an existing directory never raises, afterwards
\* every id named by a
\* parseable file is in memory holding one of the parseable files that
\* name it, no entry comes from an unparsable file, and the directory is
\* unchanged.
C21_LoadSkipsUnparsableFiles ==
    [][(config_dir /\ load_workflows)
       => /\ last' = Ok
          /\ files' = files
          /\ \A f \in WorkflowFiles :
                /\ IdIn(f) \in DOMAIN workflows'
                /\ \E g \in WorkflowFiles :
                      /\ IdIn(g) = IdIn(f)
                      /\ HoldsWorkflow(g, workflows'[IdIn(f)])
                /\ (\A g \in WorkflowFiles : IdIn(g) = IdIn(f) => g = f)
                      => HoldsWorkflow(f, workflows'[IdIn(f)])
          /\ DOMAIN workflows' = {IdIn(f) : f \in WorkflowFiles}]_vars

\* loaded: two workflow files next to a damaged one
C21_Witness ==
    /\ last = Ok
    /\ DOMAIN files = {"w1", "w2", "w3"}
    /\ files["w3"] = NotJson
    /\ WorkflowFiles = {"w1", "w2"}
    /\ DOMAIN workflows = {"w1", "w2"}
    /\ HoldsWorkflow("w1", workflows["w1"])
    /\ HoldsWorkflow("w2", workflows["w2"])

\* last is the result of a parse_verbal_command call
CommandParsed ==
    /\ last.ok
    /\ "data" \in DOMAIN last
    /\ last.data.call = "parse_verbal_command"

\* C23: parse_verbal_command returns the intent of the first pattern in
\* list order that matches somewhere in the lower-cased text: a handoff
\* intent tagged by the earliest matching handoff pattern whenever one
\* matches, also when a flow pattern matches too; otherwise a flow intent
\* tagged by the earliest matching flow pattern; and no intent when no
\* pattern matches.
C23_FirstMatchingPatternWins ==
    CommandParsed
    => LET text == Strip(Lower(last.data.text))
           result == last.data.result
           handoffs == {k \in 1..Len(HANDOFF_PATTERNS) :
                           Search(HANDOFF_PATTERNS[k], text).ok}
           flows == {k \in 1..Len(FLOW_PATTERNS) :
                        Search(FLOW_PATTERNS[k], text).ok}
       IN  /\ handoffs # {}
                => /\ result.type = "handoff"
                   /\ \E k \in handoffs :
                         /\ \A j \in handoffs : k <= j
                         /\ result.action = HANDOFF_PATTERNS[k].action
           /\ (handoffs = {} /\ flows # {})
                => /\ result.type = "flow"
                   /\ \E k \in flows :
                         /\ \A j \in flows : k <= j
                         /\ result.action = FLOW_PATTERNS[k].action
           /\ (handoffs = {} /\ flows = {}) => result = NoIntent

\* "pass to bob let bob handle": the handoff patterns 5 and 6 match;
\* pattern 5 gives the tag although its match comes later in the text
C23_Witness ==
    /\ CommandParsed
    /\ last.data.text =
          <<"pass", " ", "to", " ", "bob", " ", "let", " ", "bob", " ",
            "hand", "le">>
    /\ Search(HANDOFF_PATTERNS[5], last.data.text).ok
    /\ Search(HANDOFF_PATTERNS[6], last.data.text).ok
    /\ last.data.result.type = "handoff"
    /\ last.data.result.action = "delegate"

\* last is the result of an analyze_workflow_complexity call
Analyzed ==
    /\ last.ok
    /\ "data" \in DOMAIN last
    /\ last.data.call = "analyze_workflow_complexity"

AnalyzedWorkflow == workflows[last.data.workflow_id]
NodeTypes(wf) == {wf.steps[i].node_type : i \in 1..Len(wf.steps)}
NamesModel(wf) ==
    \E i \in 1..Len(wf.steps), m \in 1..Len(model_keywords) :
        \E k \in 1..Len(wf.steps[i].description) :
            LowerPiece(wf.steps[i].description[k]) = model_keywords[m]

\* the sum S of the scoring table
TableScore(wf) ==
    (IF Len(wf.steps) <= 3 THEN 10 ELSE IF Len(wf.steps) <= 6 THEN 30 ELSE 50)
    + (IF NodeTypes(wf) \cap {"parallel", "join"} # {} THEN 20 ELSE 0)
    + (IF NamesModel(wf) THEN 15 ELSE 0)
    + (IF "conditional" \in NodeTypes(wf) THEN 10 ELSE 0)
    + (IF "hitl" \in NodeTypes(wf) THEN 10 ELSE 0)
    + (IF NodeTypes(wf) \cap {"loop_start", "loop_end"} # {} THEN 10 ELSE 0)
    + (IF wf.trigger = "pattern" THEN 5 ELSE 0)

Reversed(wf) ==
    [wf EXCEPT !.steps = [k \in 1..Len(wf.steps) |->
                            wf.steps[Len(wf.steps) + 1 - k]]]

\* C24: the complexity score is min(100, S), S the sum of the scoring
\* table; it lies in 10..100 and is the same for the steps in reverse
\* order.
C24_ScoreIsCappedTableSum ==
    Analyzed
    => LET score == last.data.result.complexity_score
           S == TableScore(AnalyzedWorkflow)
       IN  /\ score = (IF S < 100 THEN S ELSE 100)
           /\ score \in 10..100
           /\ analysis(Reversed(AnalyzedWorkflow)).complexity_score = score

\* eight steps with every kind of special node and a model name, pattern
\* triggered: the table sums to 120 and the score is 100
C24_Witness ==
    /\ Analyzed
    /\ Len(AnalyzedWorkflow.steps) = 8
    /\ TableScore(AnalyzedWorkflow) = 120
    /\ AnalyzedWorkflow.steps[8].node_type = "loop_end"
    /\ last.data.result.complexity_score = 100

\* C25: the recommended export is skill when the score is at least 50 or a
\* parallel or join node is present or a model keyword is named; otherwise
\* command when there are at most 4 steps; otherwise both.  A 7-step
\* workflow with one parallel node scores at least 70 and gets skill.
C25_RecommendationFollowsTable ==
    Analyzed
    => LET result == last.data.result
           wf == AnalyzedWorkflow
       IN  /\ result.recommended_export =
                 (IF \/ result.complexity_score >= 50
                     \/ NodeTypes(wf) \cap {"parallel", "join"} # {}
                     \/ NamesModel(wf)
                  THEN "skill"
                  ELSE IF Len(wf.steps) <= 4 THEN "command" ELSE "both")
           /\ (Len(wf.steps) = 7 /\ "parallel" \in NodeTypes(wf))
                 => /\ result.complexity_score >= 70
                    /\ result.recommended_export = "skill"

\* seven steps, one of them a parallel node, nothing else special: score
\* 70, recommended as a skill
C25_Witness ==
    /\ Analyzed
    /\ Len(AnalyzedWorkflow.steps) = 7
    /\ NodeTypes(AnalyzedWorkflow) = {"parallel", "agent"}
    /\ ~NamesModel(AnalyzedWorkflow)
    /\ AnalyzedWorkflow.trigger = "manual"
    /\ last.data.result.complexity_score = 70
    /\ last.data.result.recommended_export = "skill"

ExportKinds == {"export_as_skill", "export_as_command", "export_as_prompt"}
JustCalled(call, w) ==
    /\ "data" \in DOMAIN last
    /\ "call" \in DOMAIN last.data
    /\ last.data.call = call
    /\ last.data.workflow_id = w
AllFalse == [skill |-> FALSE, command |-> FALSE, prompt |-> FALSE]

\* C26: for an existing workflow, get_export_status right after
\* export_as_skill reports skill true; delete_exports leaves no export file,
\* get_export_status right after it reports skill, command and prompt all
\* false whatever had been exported, and the skill directory is gone unless
\* it held another file; an export repeated right after the same export
\* changes no file.
C26_ExportStatusDeleteRoundTrip ==
    [][\A w \in WfIds :
        /\ (JustCalled("export_as_skill", w) /\ w \in DOMAIN workflows
              /\ get_export_status(w))
             => last'.data.result.skill
        /\ delete_exports(w)
             => /\ ExportsOf(w)'.skill = NoFile
                /\ ExportsOf(w)'.command = NoFile
                /\ ExportsOf(w)'.prompt = NoFile
                /\ (ExportsOf(w).skill.exists /\ ~ExportsOf(w).other_file)
                      => ~ExportsOf(w)'.skill_dir
        /\ (JustCalled("delete_exports", w) /\ get_export_status(w))
             => last'.data.result = AllFalse
        /\ \A kind \in ExportKinds :
             (JustCalled(kind, w) /\ last.data.result # None
               /\ export_as(kind, w))
                => exports' = exports]_vars

\* all three exports of an existing workflow were just deleted, the skill
\* directory with them
C26_Witness ==
    \E w \in DOMAIN workflows :
        /\ JustCalled("delete_exports", w)
        /\ last.data.result = [skill |-> "True", command |-> "True", prompt |-> "True"]
        /\ w \in DOMAIN exports
        /\ exports[w] = NothingExported

ChainEnds(wf, cur, fuel) ==
    IF FirstEdgeTarget(wf, cur) = None THEN TRUE
    ELSE IF fuel = 0 THEN FALSE
    ELSE ChainEnds(wf, FirstEdgeTarget(wf, cur), fuel - 1)

\* C7: a run driven by repeated advance calls without next_step is
\* eventually completed, with a finish time, whenever the chain of first
\* outgoing edges from its entry point reaches a step without outgoing edge.
C7_DefaultAdvanceCompletes ==
    \A r \in RunIds :
        (/\ r \in DOMAIN runs
         /\ runs[r].workflow_id \in DOMAIN workflows
         /\ ChainEnds(workflows[runs[r].workflow_id], runs[r].current_step,
                      Len(workflows[runs[r].workflow_id].steps)))
        ~> (/\ r \in DOMAIN runs
            /\ runs[r].status = "completed"
            /\ runs[r].finished_at # NoTime)

C7_Witness ==
    \E r \in DOMAIN runs :
        /\ runs[r].status = "completed"
        /\ runs[r].finished_at # NoTime
        /\ runs[r].current_step = None
        /\ runs[r].completed_steps = <<"a", "b">>

====
